---------------------------- MODULE Spec2Model ----------------------------
(***************************************************************************)
(* A state-machine model of the variational-Bayes core of beer:            *)
(*   - ExpFamilyPrior / DirichletPrior   (beer/expfamilyprior.py)          *)
(*   - MixtureSet                        (beer/models/mixtureset.py)       *)
(*   - VAE and its two subclasses        (beer/models/vae.py)              *)
(*                                                                         *)
(* Numbers.  Tensors hold exact rationals <<n, d>> (d > 0, lowest terms).  *)
(* MixtureSet works in the log domain (log-weights, log-likelihoods) and   *)
(* applies exp() to the results; there a log-domain quantity x is stored   *)
(* as the rational e^x, so that "+" of the log domain is RMul, "-" is RDiv *)
(* and each stage of logsumexp (max, subtract, exp, sum, log, add back)    *)
(* is computed as the code computes it.                                    *)
(***************************************************************************)
EXTENDS Integers, Sequences, FiniteSets, TLC

\* ------------------------------------------------------------------------
\* Bounds of the model.
\* ------------------------------------------------------------------------
MaxBatch == 2      \* samples per minibatch: 1..MaxBatch
MaxMix == 2        \* num_mix ranges over 1..MaxMix
MaxComp == 2       \* weight dimension of a mixture ranges over 1..MaxComp
MaxEta == 1        \* natural hyper-parameters of a Dirichlet: 0..MaxEta
MaxTensors == 2    \* tensors alive in the ExpFamilyPrior scenario

None == <<>>

\* ------------------------------------------------------------------------
\* Exact arithmetic on tensor entries.
\* ------------------------------------------------------------------------
\* A local name: F applied to the value v, computed once.
With(v, F(_)) == F(v)

Abs(x) == IF x < 0 THEN -x ELSE x

RECURSIVE GCD(_, _)
GCD(a, b) == IF b = 0 THEN a ELSE GCD(b, a % b)

Reduce(n, d, g) ==
    IF d < 0 THEN <<(-n) \div g, (-d) \div g>> ELSE <<n \div g, d \div g>>

Rat(n, d) == Reduce(n, d, GCD(Abs(n), Abs(d)))

R0 == <<0, 1>>
R1 == <<1, 1>>
RInt(n) == <<n, 1>>
RAdd(p, q) == Rat(p[1] * q[2] + q[1] * p[2], p[2] * q[2])
RSub(p, q) == Rat(p[1] * q[2] - q[1] * p[2], p[2] * q[2])
RMul(p, q) == Rat(p[1] * q[1], p[2] * q[2])
RDiv(p, q) == Rat(p[1] * q[2], p[2] * q[1])
RLe(p, q) == p[1] * q[2] <= q[1] * p[2]

\* The sequence <<F(1), ..., F(n)>>: a tensor axis of length n.
RECURSIVE Tab(_, _)
Tab(F(_), n) == IF n = 0 THEN <<>> ELSE Append(Tab(F, n - 1), F(n))

RECURSIVE RSum(_)
RSum(s) == IF s = <<>> THEN R0 ELSE RAdd(Head(s), RSum(Tail(s)))

RECURSIVE RMax(_)
RMax(s) ==
    IF Len(s) = 1 THEN s[1]
    ELSE With(RMax(Tail(s)), LAMBDA m : IF RLe(m, s[1]) THEN s[1] ELSE m)

\* ========================================================================
\* ExpFamilyPrior (DirichletPrior)
\* ========================================================================
VARIABLES
    tensors,   \* the torch tensors alive: id -> [data, requires_grad, grad]
    prior,     \* the ExpFamilyPrior: [hp, ess] references into tensors
    plast      \* outcome of the last assignment to natural_hparams

pvars == <<tensors, prior, plast>>

\* Concentration / natural-parameter vectors of the scenario (dimension 2).
EtaVals == {<<a, b>> : a \in 0..MaxEta, b \in 0..MaxEta}

\* digamma(b) - digamma(a) for integers 1 <= a <= b:  sum_{k=a}^{b-1} 1/k
RECURSIVE HarmonicDiff(_, _)
HarmonicDiff(a, b) ==
    IF a >= b THEN R0 ELSE RAdd(<<1, a>>, HarmonicDiff(a + 1, b))

RECURSIVE SumInts(_)
SumInts(s) == IF s = <<>> THEN 0 ELSE Head(s) + SumInts(Tail(s))

\* Gradient of DirichletPrior.log_norm at the integer vector eta:
\*   d/d eta_i [ -lgamma(sum(eta+1)) + sum lgamma(eta+1) ]
\*      = digamma(eta_i + 1) - digamma(sum(eta + 1))
grad_log_norm(eta) ==
    With(SumInts(eta) + Len(eta), LAMBDA a0 :
        Tab(LAMBDA i : RSub(R0, HarmonicDiff(eta[i] + 1, a0)), Len(eta)))

Zeros(n) == Tab(LAMBDA i : R0, n)

VecAdd(u, v) == Tab(LAMBDA i : RAdd(u[i], v[i]), Len(u))

\* torch.tensor(data, requires_grad=rg): a fresh leaf, its .grad is None.
new_tensor(data, rg) == [data |-> data, requires_grad |-> rg, grad |-> None]

\* ta.backward(log_norm(value)) accumulates the gradient into value.grad.
backward(t) ==
    [t EXCEPT !.grad = IF t.grad = None THEN grad_log_norm(t.data)
                       ELSE VecAdd(t.grad, grad_log_norm(t.data))]

\* The natural_hparams setter, on the tensor with id v.
\*   1. value.grad is not None: value.grad.zero_() zeroes the gradient in
\*      place, then the result of zero_() is called: TypeError.
\*   2. value does not require grad: backward raises RuntimeError.
\*   3. otherwise the gradient is accumulated and both fields are stored.
setter_zero_call(v) ==
    /\ tensors[v].grad # None
    /\ tensors' = [tensors EXCEPT ![v].grad = Zeros(Len(tensors[v].data))]
    /\ plast' = [op |-> "set", arg |-> v, status |-> "TypeError"]
    /\ UNCHANGED prior

setter_no_grad(v) ==
    /\ tensors[v].grad = None
    /\ ~tensors[v].requires_grad
    /\ plast' = [op |-> "set", arg |-> v, status |-> "RuntimeError"]
    /\ UNCHANGED <<tensors, prior>>

setter_fresh(v) ==
    /\ tensors[v].grad = None
    /\ tensors[v].requires_grad
    /\ tensors' = [tensors EXCEPT ![v] = backward(tensors[v])]
    /\ prior' = [hp |-> v, ess |-> v]
    /\ plast' = [op |-> "set", arg |-> v, status |-> "ok"]

SetNaturalHparams ==
    \E v \in DOMAIN tensors :
        \/ setter_zero_call(v)
        \/ setter_no_grad(v)
        \/ setter_fresh(v)

\* The caller builds a new tensor (as the optimizer does for each update).
NewTensor ==
    /\ Len(tensors) < MaxTensors
    /\ \E d \in EtaVals, rg \in BOOLEAN :
           tensors' = Append(tensors, new_tensor(d, rg))
    /\ plast' = [op |-> "new", arg |-> Len(tensors) + 1, status |-> "ok"]
    /\ UNCHANGED prior

\* Property getters.
natural_hparams == tensors[prior.hp].data
expected_sufficient_statistics == tensors[prior.ess].grad

\* DirichletPrior(concentrations): natural_hparams = concentrations - 1,
\* requires_grad=True, handed to ExpFamilyPrior.__init__, which runs the
\* setter on it.
DirichletPrior(eta) ==
    /\ tensors = <<backward(new_tensor(eta, TRUE))>>
    /\ prior = [hp |-> 1, ess |-> 1]
    /\ plast = [op |-> "init", arg |-> 1, status |-> "ok"]

\* ========================================================================
\* BayesianModel objects: MixtureSet, VAE, VAEGlobalMeanDiagonalCovariance,
\* VAEGlobalMeanIsotropicCovariance
\* ========================================================================
VARIABLES
    model,     \* the model instance: its class (kind) and fields
    cache,     \* model.cache: a dictionary, key -> tensor
    stats,     \* history: the statistics given to the last forward
    last,      \* the last call on the model: [op, arg, status, ret]
    calls,     \* calls the last handler made on the sub-models it owns
    fwd        \* history: forward was called since the last accumulate
               \*          that returned

mvars == <<model, cache, stats, last, calls, fwd>>
vars == <<tensors, prior, plast, model, cache, stats, last, calls, fwd>>

EmptyCache == <<>>

\* One observation is a number; a minibatch is a sequence of 1..MaxBatch
\* observations: all equal to 0, or 1 and 0 in turn.
DataVals == {0, 1}
Batches == {Tab(LAMBDA s : o * (s % 2), n) : o \in DataVals, n \in 1..MaxBatch}

\* ------------------------------------------------------------------------
\* The component set owned by a MixtureSet (a BayesianModelSet: its code is
\* outside the files modelled here).  Component k of the pool scores a
\* sample x with expected log-likelihood log(2) * ((k + x) mod 3).
\* ------------------------------------------------------------------------
component_exp_llh(k, x) == RInt(<<1, 2, 4>>[((k + x) % 3) + 1])

\* modelset(s_stats): a (batch, len(modelset)) matrix.
modelset_forward(pool, s_stats) ==
    Tab(LAMBDA s :
        Tab(LAMBDA k : component_exp_llh(k, s_stats[s]), pool), Len(s_stats))

\* modelset.accumulate(s_stats, parent_msg): every component's parameter
\* mapped to the statistics of the samples weighted by its column of
\* parent_msg; the message must be (len(s_stats), len(modelset)).
modelset_accumulate_ok(pool, s_stats, msg) ==
    /\ Len(msg) = Len(s_stats)
    /\ \A s \in 1..Len(msg) : Len(msg[s]) = pool

modelset_accumulate(pool, s_stats, msg) ==
    [key \in {<<"modelset", k>> : k \in 1..pool} |->
        RSum(Tab(LAMBDA s :
                 RMul(msg[s][key[2]], RInt(s_stats[s])), Len(s_stats)))]

\* ------------------------------------------------------------------------
\* MixtureSet
\* ------------------------------------------------------------------------

\* exp(E[log pi]) of a Dirichlet posterior over W weights: positive entries
\* whose sum is below 1 (exactly <<1>> for W = 1).
RECURSIVE Pow2(_)
Pow2(n) == IF n = 0 THEN 1 ELSE 2 * Pow2(n - 1)

UniformWeights(W) == IF W = 1 THEN <<R1>> ELSE Tab(LAMBDA c : Rat(1, 8), W)
SkewedWeights(W) == IF W = 1 THEN <<R1>> ELSE Tab(LAMBDA c : Rat(1, Pow2(c)), W)

\* The posteriors of the num_mix weight parameters: all uniform, or skewed
\* and uniform in turn.
WeightSets(M, W) ==
    { Tab(LAMBDA i : UniformWeights(W), M),
      Tab(LAMBDA i : IF i % 2 = 1 THEN SkewedWeights(W)
                     ELSE UniformWeights(W), M) }

\* MixtureSet.__init__(prior_weights, posterior_weights, modelset)
MixtureSet_init(prior_weights, posterior_weights, pool) ==
    [kind |-> "MixtureSet",
     num_mix |-> Len(prior_weights),
     num_comp |-> pool \div Len(prior_weights),
     mix_weights |-> Tab(LAMBDA i :
                         [prior |-> prior_weights[i],
                          posterior |-> posterior_weights[i]],
                         Len(prior_weights)),
     modelset |-> pool]

\* BayesianParameter.expected_value(): the posterior's expected sufficient
\* statistics (for a Dirichlet: E[log pi]).
expected_value(param) == param.posterior

\* MixtureSet.log_weights(): row i of a (num_mix, num_comp) tensor is
\* assigned mix_weights[i].expected_value(); the assignment broadcasts a
\* vector of length 1 and fails on any other length mismatch.
log_weights_ok(m) ==
    \A i \in 1..m.num_mix :
        Len(expected_value(m.mix_weights[i])) \in {m.num_comp, 1}

broadcast_row(w, n) == Tab(LAMBDA c : IF Len(w) = 1 THEN w[1] ELSE w[c], n)

log_weights(m) ==
    Tab(LAMBDA i :
        broadcast_row(expected_value(m.mix_weights[i]), m.num_comp), m.num_mix)

\* tensor.reshape(-1, num_mix, num_comp) of a (rows, cols) matrix: row-major.
reshape_ok(mat, num_mix, num_comp) ==
    /\ num_mix * num_comp > 0
    /\ (Len(mat) * Len(mat[1])) % (num_mix * num_comp) = 0

flat_at(mat, i) ==
    mat[((i - 1) \div Len(mat[1])) + 1][((i - 1) % Len(mat[1])) + 1]

reshape3(mat, num_mix, num_comp) ==
    Tab(LAMBDA r :
        Tab(LAMBDA m :
            Tab(LAMBDA c :
                flat_at(mat, (r - 1) * num_mix * num_comp
                             + (m - 1) * num_comp + c),
                num_comp),
            num_mix),
        (Len(mat) * Len(mat[1])) \div (num_mix * num_comp))

\* A logsumexp that leaves the maximum out of its result.
logsumexp_without_tmax(row) ==
    With(RMax(row), LAMBDA tmax :
        RSum(Tab(LAMBDA c : RDiv(row[c], tmax), Len(row))))

\* utils.logsumexp over the last axis, on one row of log-domain values:
\*   tmax + log(sum(exp(tensor - tmax)))
logsumexp(row) ==
    With(RMax(row), LAMBDA tmax :
        RMul(tmax,                                       \* tmax + (...).log()
             RSum(                                       \* .exp().sum()
                 Tab(LAMBDA c : RDiv(row[c], tmax),      \* tensor - tmax
                     Len(row)))))

\* pc_exp_llhs + log_weights (log_weights broadcasts over the rows)
add_log_weights(pc, lw, m) ==
    Tab(LAMBDA r : Tab(LAMBDA i :
        Tab(LAMBDA c : RMul(pc[r][i][c], lw[i][c]), m.num_comp),
        m.num_mix), Len(pc))

\* exp(w_pc_exp_llhs - log_norm[:, :, None])
normalize(w_pc, log_norm, m) ==
    Tab(LAMBDA r : Tab(LAMBDA i :
        Tab(LAMBDA c : RDiv(w_pc[r][i][c], log_norm[r][i]), m.num_comp),
        m.num_mix), Len(w_pc))

log_norms(w_pc, m) ==
    Tab(LAMBDA r : Tab(LAMBDA i : logsumexp(w_pc[r][i]), m.num_mix),
        Len(w_pc))

\* The responsibilities MixtureSet.forward caches.
forward_resps(m, s_stats) ==
    With(add_log_weights(
             reshape3(modelset_forward(m.modelset, s_stats),
                      m.num_mix, m.num_comp),
             log_weights(m), m),
         LAMBDA w_pc : normalize(w_pc, log_norms(w_pc, m), m))

\* MixtureSet.forward(s_stats).  The returned tensor (exp_llh -
\* local_kl_div, one entry per row and mixture) is not stored anywhere; the
\* model keeps its shape.
forward_status(m, s_stats) ==
    IF ~log_weights_ok(m) THEN "RuntimeError"
    ELSE IF ~reshape_ok(modelset_forward(m.modelset, s_stats),
                        m.num_mix, m.num_comp) THEN "RuntimeError"
    ELSE "ok"

forward_returns(s_stats, resps) ==
    /\ cache' = ("resps" :> resps) @@ cache
    /\ stats' = s_stats
    /\ fwd' = TRUE
    /\ last' = [op |-> "forward", arg |-> s_stats, status |-> "ok",
                ret |-> <<Len(resps), model.num_mix>>]

forward_raises(s_stats, st) ==
    /\ UNCHANGED <<cache, stats, fwd>>
    /\ last' = [op |-> "forward", arg |-> s_stats, status |-> st,
                ret |-> None]

MixtureSet_forward(s_stats) ==
    /\ model.kind = "MixtureSet"
    /\ UNCHANGED pvars
    /\ calls' = <<>>
    /\ IF forward_status(model, s_stats) = "ok"
       THEN forward_returns(s_stats, forward_resps(model, s_stats))
       ELSE forward_raises(s_stats, forward_status(model, s_stats))
    /\ UNCHANGED model

\* Messages a parent hands down: one row per sample of the minibatch, one
\* column per mixture.
ParentMsgs(batch, num_mix) ==
    { Tab(LAMBDA s : Tab(LAMBDA i : R1, num_mix), batch),
      Tab(LAMBDA s : Tab(LAMBDA i : IF (s + i) % 2 = 0 THEN R1 ELSE R0,
                         num_mix), batch),
      Tab(LAMBDA s : Tab(LAMBDA i : Rat(1, s + i - 1), num_mix), batch) }

\* cache['resps'] * parent_msg[:, :, None]: the batch axes broadcast.
joint_ok(resps, parent_msg) ==
    \/ Len(resps) = Len(parent_msg)
    \/ Len(resps) = 1
    \/ Len(parent_msg) = 1

broadcast_at(t, r) == IF Len(t) = 1 THEN t[1] ELSE t[r]

broadcast_len(a, b) == IF Len(a) >= Len(b) THEN Len(a) ELSE Len(b)

\* The responsibilities alone, the message of the parent left out.
joint_resps_without_msg(m, resps, parent_msg) ==
    Tab(LAMBDA r : Tab(LAMBDA i :
        Tab(LAMBDA c : broadcast_at(resps, r)[i][c], m.num_comp),
        m.num_mix), broadcast_len(resps, parent_msg))

joint_resps(m, resps, parent_msg) ==
    Tab(LAMBDA r : Tab(LAMBDA i :
        Tab(LAMBDA c :
            RMul(broadcast_at(resps, r)[i][c], broadcast_at(parent_msg, r)[i]),
            m.num_comp),
        m.num_mix), broadcast_len(resps, parent_msg))

\* joint_resps.sum(dim=0)
sum_joint_resps(m, joint) ==
    Tab(LAMBDA i : Tab(LAMBDA c :
        RSum(Tab(LAMBDA r : joint[r][i][c], Len(joint))), m.num_comp),
        m.num_mix)

\* A reshape that lays the components out mixture-minor.
reshape2_transposed(m, joint) ==
    Tab(LAMBDA r :
        Tab(LAMBDA j :
            joint[r][((j - 1) % m.num_mix) + 1][((j - 1) \div m.num_mix) + 1],
            m.num_mix * m.num_comp),
        Len(joint))

\* joint_resps.reshape(-1, num_mix * num_comp)
reshape2(m, joint) ==
    Tab(LAMBDA r :
        Tab(LAMBDA j :
            joint[r][((j - 1) \div m.num_comp) + 1][((j - 1) % m.num_comp) + 1],
            m.num_mix * m.num_comp),
        Len(joint))

\* Two parameters equal when their priors and posteriors are.
param_eq_by_value(m, i, j) == m.mix_weights[i] = m.mix_weights[j]

\* The i-th and the j-th weight parameter as dictionary keys:
\* BayesianParameter defines __hash__ (of the default repr, which carries
\* the address of the object) and no __eq__, so two keys are equal exactly
\* when they are the same object.
param_eq(m, i, j) == i = j

\* The key under which a dict holds the i-th weight parameter: the first
\* inserted key equal to it.
dict_key(m, i) ==
    <<"mix_weights",
      CHOOSE j \in 1..i :
          param_eq(m, j, i) /\ \A k \in 1..(j - 1) : ~ param_eq(m, k, i)>>

\* dict(zip(self.mix_weights, sum_joint_resps)): a key inserted again keeps
\* the value of its last insertion.
zip_weights(m, sums) ==
    [key \in {dict_key(m, i) : i \in 1..m.num_mix} |->
        sums[CHOOSE i \in 1..m.num_mix :
                 /\ dict_key(m, i) = key
                 /\ \A k \in (i + 1)..m.num_mix : dict_key(m, k) # key]]

\* {**a, **b}
merge(a, b) == b @@ a

accumulate_raises(s_stats, parent_msg, error) ==
    /\ last' = [op |-> "accumulate",
                arg |-> [s_stats |-> s_stats, parent_msg |-> parent_msg],
                status |-> error, ret |-> None, after_forward |-> fwd]
    /\ UNCHANGED <<model, cache, stats, fwd>>

\* A None check that comes after the read of the cache.
accumulate_none_after_cache(s_stats, parent_msg) ==
    /\ parent_msg = None
    /\ calls' = <<>>
    /\ IF "resps" \notin DOMAIN cache
       THEN accumulate_raises(s_stats, parent_msg, "KeyError")
       ELSE accumulate_raises(s_stats, parent_msg, "ValueError")

\* MixtureSet.accumulate(s_stats, parent_msg): the steps of the body, in
\* order, each with the exception it can raise.
\*   if parent_msg is None: raise ValueError
accumulate_none(s_stats, parent_msg) ==
    /\ parent_msg = None
    /\ calls' = <<>>
    /\ accumulate_raises(s_stats, parent_msg, "ValueError")

\*   acc_stats = self.modelset.accumulate(s_stats, joint_resps.reshape(...))
\*   return {**ret_val, **acc_stats}
accumulate_child(s_stats, parent_msg, ret_val, msg) ==
    /\ calls' = <<[callee |-> "modelset.accumulate",
                   s_stats |-> s_stats, parent_msg |-> msg]>>
    /\ IF modelset_accumulate_ok(model.modelset, s_stats, msg)
       THEN /\ last' = [op |-> "accumulate",
                        arg |-> [s_stats |-> s_stats,
                                 parent_msg |-> parent_msg],
                        status |-> "ok",
                        ret |-> merge(ret_val,
                                      modelset_accumulate(model.modelset,
                                                          s_stats, msg)),
                        after_forward |-> fwd]
            /\ fwd' = FALSE
            /\ UNCHANGED <<model, cache, stats>>
       ELSE accumulate_raises(s_stats, parent_msg, "RuntimeError")

\*   sum_joint_resps = joint_resps.sum(dim=0)
\*   ret_val = dict(zip(self.mix_weights, sum_joint_resps))
accumulate_joint(s_stats, parent_msg, joint) ==
    accumulate_child(s_stats, parent_msg,
                     zip_weights(model, sum_joint_resps(model, joint)),
                     reshape2(model, joint))

\*   joint_resps = self.cache['resps'] * parent_msg[:,:, None]
accumulate_body(s_stats, parent_msg) ==
    /\ parent_msg # None
    /\ IF "resps" \notin DOMAIN cache
       THEN /\ calls' = <<>>
            /\ accumulate_raises(s_stats, parent_msg, "KeyError")
       ELSE IF ~joint_ok(cache["resps"], parent_msg)
       THEN /\ calls' = <<>>
            /\ accumulate_raises(s_stats, parent_msg, "RuntimeError")
       ELSE accumulate_joint(s_stats, parent_msg,
                             joint_resps(model, cache["resps"], parent_msg))

MixtureSet_accumulate(s_stats, parent_msg) ==
    /\ model.kind = "MixtureSet"
    /\ UNCHANGED pvars
    /\ \/ accumulate_none(s_stats, parent_msg)
       \/ accumulate_body(s_stats, parent_msg)

\* weights[key] / weights.sum()
getitem_weights(m, key, weights) ==
    With(RSum(Tab(LAMBDA i : RSum(weights[i]), m.num_mix)), LAMBDA total :
        Tab(LAMBDA c : RDiv(weights[key + 1][c], total), m.num_comp))

\* MixtureSet.__getitem__(key): the log-weights are stored as their
\* exponentials, so torch.exp(self.log_weights()) reads them as they are.
getitem(m, key) ==
    [weights |-> getitem_weights(m, key, log_weights(m)),
     modelset |-> Tab(LAMBDA j : key * m.num_comp + (j - 1), m.num_comp)]

MixtureSet_getitem(key) ==
    /\ model.kind = "MixtureSet"
    /\ UNCHANGED pvars
    /\ IF ~log_weights_ok(model)
       THEN last' = [op |-> "getitem", arg |-> key, status |-> "RuntimeError",
                     ret |-> None]
       ELSE last' = [op |-> "getitem", arg |-> key, status |-> "ok",
                     ret |-> getitem(model, key)]
    /\ calls' = <<>>
    /\ UNCHANGED <<model, cache, stats, fwd>>

\* MixtureSet.__len__()
MixtureSet_len ==
    /\ model.kind = "MixtureSet"
    /\ UNCHANGED pvars
    /\ last' = [op |-> "len", arg |-> None, status |-> "ok",
                ret |-> model.num_mix]
    /\ calls' = <<>>
    /\ UNCHANGED <<model, cache, stats, fwd>>

\* The mixture sets of the model: every num_mix, every weight dimension,
\* and a pool of num_mix * dimension components or one more.
MixtureSets ==
    UNION { UNION { { MixtureSet_init(w, w, pool) :
                        pool \in {M * W, M * W + 1} } :
                    w \in WeightSets(M, W) } :
            <<M, W>> \in (1..MaxMix) \X (1..MaxComp) }

\* ------------------------------------------------------------------------
\* VAE, VAEGlobalMeanDiagonalCovariance, VAEGlobalMeanIsotropicCovariance
\*
\* Observations and latent vectors have one dimension.  The encoder and the
\* decoder are affine maps <<w, b>> (x |-> w * x + b) that emit unit
\* variances, for which log and sqrt are exact.
\* ------------------------------------------------------------------------
Ln(v) == CASE v = R1 -> R0
Sqrt(v) == CASE v = R1 -> R1

\* math.log(2 * math.pi) = 1.8378770664..., to three decimals.
Log2Pi == Rat(1838, 1000)
Half == Rat(1, 2)

Dot(u, v) == RSum(Tab(LAMBDA j : RMul(u[j], v[j]), Len(u)))

\* encoder(data) -> (means, variances)
encoder_forward(enc, data) ==
    Tab(LAMBDA s :
        [mean |-> RInt(enc[1] * data[s] + enc[2]), var |-> R1], Len(data))

\* decoder(samples) -> (dec_means, dec_variances); the subclasses read its
\* output as the means alone.
decoder_forward(dec, z) ==
    [mean |-> RAdd(RMul(RInt(dec[1]), z), RInt(dec[2])), var |-> R1]

\* vae._normal_diag_natural_params(mean, var)
normal_diag_natural_params(mean, var) ==
    << RDiv(RInt(-1), RMul(RInt(2), var)),
       RDiv(mean, var),
       RDiv(RSub(R0, RMul(mean, mean)), RMul(RInt(2), var)),
       RMul(RSub(R0, Half), Ln(var)) >>

\* NormalDiagonalCovariance.sufficient_statistics_from_mean_var(means,
\* variances): the expected sufficient statistics of N(mean, var).
sufficient_statistics_from_mean_var(mean, var) ==
    << RAdd(RMul(mean, mean), var), mean, R1, R1 >>

\* latent_model.expected_natural_params(means, variances, nsamples): the
\* latent model is a Normal of mean lat and unit variance; it returns its
\* expected natural parameters and the statistics it will accumulate.
latent_expected_natural_params(lat, enc_out) ==
    [exp_np_params |->
        Tab(LAMBDA s : normal_diag_natural_params(RInt(lat), R1),
            Len(enc_out)),
     s_stats |->
        Tab(LAMBDA s : sufficient_statistics_from_mean_var(enc_out[s].mean,
                                                           enc_out[s].var),
            Len(enc_out))]

\* ((nparams - exp_np_params) * exp_s_stats).sum(dim=-1), one sample
kl_row(nparams, exp_np_params, exp_s_stats) ==
    RSum(Tab(LAMBDA j :
             RMul(RSub(nparams[j], exp_np_params[j]), exp_s_stats[j]), 4))

\* VAE._compute_local_kl_div: the value cached under 'kl_divergence'.
compute_local_kl_div(enc_out, exp_np_params) ==
    Tab(LAMBDA s :
        kl_row(normal_diag_natural_params(enc_out[s].mean, enc_out[s].var),
               exp_np_params[s],
               sufficient_statistics_from_mean_var(enc_out[s].mean,
                                                   enc_out[s].var)),
        Len(enc_out))

\* utils.sample_from_normals(means, variances, nsamples): draw n of sample
\* s is mean + sqrt(var) * noise[n]; one standard-normal draw noise[n] is
\* shared by the samples of the batch.
sample_from_normals(enc_out, nsamples, noise) ==
    Tab(LAMBDA n : Tab(LAMBDA s :
        RAdd(enc_out[s].mean, RMul(Sqrt(enc_out[s].var), RInt(noise[n]))),
        Len(enc_out)), nsamples)

\* vae._log_likelihood(data, means, variances), one dimension
log_likelihood_terms(distance_term, precision_term) ==
    RSub(RSub(RSub(R0, distance_term), precision_term), RMul(Half, Log2Pi))

squared(d) == RMul(d, d)

log_likelihood(x, mean, var) ==
    log_likelihood_terms(RDiv(RMul(Half, squared(RSub(x, mean))), var),
                         RMul(Half, Ln(var)))

\* tensor.mean(dim=0)
MeanOver(n, f(_)) == RDiv(RSum(Tab(f, n)), RInt(n))

decoded_llh(x, out) == log_likelihood(x, out.mean, out.var)

\* VAE._expected_llh(data, means, variances, nsamples)
VAE_expected_llh(m, data, enc_out, nsamples, noise) ==
    With(sample_from_normals(enc_out, nsamples, noise), LAMBDA samples :
        Tab(LAMBDA s :
            MeanOver(nsamples, LAMBDA n :
                decoded_llh(RInt(data[s]),
                            decoder_forward(m.decoder, samples[n][s]))),
            Len(data)))

\* self.normal of the two subclasses (a Normal of mean m.normal and unit
\* variance): its sufficient statistics and its expected log-likelihood.
normal_sufficient_statistics(x) == << RMul(x, x), x, R1, R1 >>

normal_forward(nrm, s_stats) ==
    RSub(Dot(normal_diag_natural_params(RInt(nrm), R1), s_stats),
         RMul(Half, Log2Pi))

\* self.normal.sufficient_statistics(data[None] - dec_means): draws x batch
centered_stats(m, data, samples) ==
    Tab(LAMBDA n : Tab(LAMBDA s :
        normal_sufficient_statistics(
            RSub(RInt(data[s]), decoder_forward(m.decoder, samples[n][s]).mean)),
        Len(data)), Len(samples))

mean_over_draws(c, batch) ==
    Tab(LAMBDA s : Tab(LAMBDA j :
        MeanOver(Len(c), LAMBDA n : c[n][s][j]), 4), batch)

\* VAEGlobalMean*Covariance._expected_llh: the statistics cached under
\* 'centered_s_stats' ...
centered_s_stats(m, data, enc_out, nsamples, noise) ==
    mean_over_draws(
        centered_stats(m, data, sample_from_normals(enc_out, nsamples, noise)),
        Len(data))

\* ... and the value it returns, self.normal(s_stats).
Global_expected_llh(m, c) ==
    Tab(LAMBDA s : normal_forward(m.normal, c[s]), Len(c))

IsVAE(m) == m.kind \in {"VAE", "VAEGlobalMeanDiagonalCovariance",
                        "VAEGlobalMeanIsotropicCovariance"}
IsGlobal(m) == m.kind \in {"VAEGlobalMeanDiagonalCovariance",
                           "VAEGlobalMeanIsotropicCovariance"}

\* self._expected_llh(data, means, variances, nsamples): the value and the
\* cache it leaves (the subclasses add 'centered_s_stats').
expected_llh_global(m, c, c0) ==
    [ret |-> Global_expected_llh(m, c),
     cache |-> ("centered_s_stats" :> c) @@ c0]

expected_llh(m, data, enc_out, nsamples, noise, c0) ==
    IF IsGlobal(m)
    THEN expected_llh_global(
             m, centered_s_stats(m, data, enc_out, nsamples, noise), c0)
    ELSE [ret |-> VAE_expected_llh(m, data, enc_out, nsamples, noise),
          cache |-> c0]

\* A forward that subtracts the local KL divergence from what it returns.
forward_ret_minus_kl(ell, kl) ==
    Tab(LAMBDA s : RSub(ell[s], kl[s]), Len(ell))

\* What VAE.forward returns, given the value ell of self._expected_llh(...)
\* and the KL divergence kl it has cached: ell.
VAE_forward_ret(ell, kl) == ell

forward_done(data, nsamples, noise, enc_out, kl, e) ==
    /\ stats' = data
    /\ fwd' = TRUE
    /\ cache' = e.cache
    /\ calls' = <<[callee |-> "latent_model.expected_natural_params",
                   s_stats |-> enc_out, parent_msg |-> None]>>
    /\ last' = [op |-> "forward",
                arg |-> [data |-> data, nsamples |-> nsamples,
                         noise |-> noise],
                status |-> "ok",
                ret |-> VAE_forward_ret(e.ret, kl)]

\*   exp_np_params = self._estimate_prior(...)      caches 'latent_stats'
\*   self._compute_local_kl_div(...)                caches 'kl_divergence'
\*   return self._expected_llh(...)
forward_estimated(data, nsamples, noise, enc_out, est, kl) ==
    forward_done(data, nsamples, noise, enc_out, kl,
                 expected_llh(model, data, enc_out, nsamples, noise,
                              ("kl_divergence" :> kl)
                                  @@ ("latent_stats" :> est.s_stats)
                                  @@ cache))

forward_encoded(data, nsamples, noise, enc_out, est) ==
    forward_estimated(data, nsamples, noise, enc_out, est,
                      compute_local_kl_div(enc_out, est.exp_np_params))

\* VAE.forward(s_stats, nsamples), inherited by the subclasses.
VAE_forward(data, nsamples, noise) ==
    /\ IsVAE(model)
    /\ UNCHANGED pvars
    /\ forward_encoded(data, nsamples, noise,
                       encoder_forward(model.encoder, data),
                       latent_expected_natural_params(
                           model.latent_model,
                           encoder_forward(model.encoder, data)))
    /\ UNCHANGED model

\* BayesianModel.clear_cache()
clear_cache == EmptyCache

\* latent_model.accumulate(s_stats, parent_msg): the latent model's
\* parameter mapped to the statistics weighted by parent_msg (weight 1 for
\* every sample when parent_msg is None).
latent_accumulate(s_stats, parent_msg) ==
    (<<"latent_model", 1>> :>
        Tab(LAMBDA j : RSum(Tab(LAMBDA s :
            RMul(IF parent_msg = None THEN R1 ELSE parent_msg[s],
                 s_stats[s][j]), Len(s_stats))), 4))

\* self.normal.accumulate(s_stats)
normal_accumulate(s_stats) ==
    (<<"normal", 1>> :>
        Tab(LAMBDA j : RSum(Tab(LAMBDA s : s_stats[s][j], Len(s_stats))), 4))

vae_accumulate_raises(parent_msg, error) ==
    /\ last' = [op |-> "accumulate", arg |-> [parent_msg |-> parent_msg],
                status |-> error, ret |-> None, after_forward |-> fwd]
    /\ calls' = <<>>
    /\ UNCHANGED <<cache, fwd>>

\* VAE.accumulate(_, parent_msg)
\*   latent_stats = self.cache['latent_stats']
\*   self.clear_cache()
\*   return self.latent_model.accumulate(latent_stats, parent_msg)
VAE_accumulate(parent_msg) ==
    /\ model.kind = "VAE"
    /\ UNCHANGED pvars
    /\ IF "latent_stats" \notin DOMAIN cache
       THEN vae_accumulate_raises(parent_msg, "KeyError")
       ELSE /\ cache' = clear_cache
            /\ calls' = <<[callee |-> "latent_model.accumulate",
                           s_stats |-> cache["latent_stats"],
                           parent_msg |-> parent_msg]>>
            /\ last' = [op |-> "accumulate",
                        arg |-> [parent_msg |-> parent_msg],
                        status |-> "ok",
                        ret |-> latent_accumulate(cache["latent_stats"],
                                                  parent_msg),
                        after_forward |-> fwd]
            /\ fwd' = FALSE
    /\ UNCHANGED <<model, stats>>

\* VAEGlobalMeanDiagonalCovariance.accumulate and
\* VAEGlobalMeanIsotropicCovariance.accumulate (the same body)
\*   latent_stats = self.cache['latent_stats']
\*   centered_s_stats = self.cache['centered_s_stats']
\*   self.clear_cache()
\*   return {**self.latent_model.accumulate(latent_stats),
\*           **self.normal.accumulate(centered_s_stats)}
Global_accumulate(parent_msg) ==
    /\ IsGlobal(model)
    /\ UNCHANGED pvars
    /\ IF "latent_stats" \notin DOMAIN cache
          \/ "centered_s_stats" \notin DOMAIN cache
       THEN vae_accumulate_raises(parent_msg, "KeyError")
       ELSE /\ cache' = clear_cache
            /\ calls' = <<[callee |-> "latent_model.accumulate",
                           s_stats |-> cache["latent_stats"],
                           parent_msg |-> None],
                          [callee |-> "normal.accumulate",
                           s_stats |-> cache["centered_s_stats"],
                           parent_msg |-> None]>>
            /\ last' = [op |-> "accumulate",
                        arg |-> [parent_msg |-> parent_msg],
                        status |-> "ok",
                        ret |-> merge(
                            latent_accumulate(cache["latent_stats"], None),
                            normal_accumulate(cache["centered_s_stats"])),
                        after_forward |-> fwd]
            /\ fwd' = FALSE
    /\ UNCHANGED <<model, stats>>

\* self.latent_model.local_kl_div_posterior_prior(): the latent model has no
\* latent variable of its own, its local divergence is 0 for every sample.
latent_local_kl_div(n) == Zeros(n)

\* A local KL divergence that leaves the cached term out.
local_kl_div_of_latent_model_only(c, n) ==
    [status |-> "ok", ret |-> latent_local_kl_div(n)]

\* VAE.local_kl_div_posterior_prior(), on the cache c of the model, for a
\* batch of n samples:
\*   return self.cache['kl_divergence'] +
\*       self.latent_model.local_kl_div_posterior_prior()
local_kl_div_posterior_prior(c, n) ==
    IF "kl_divergence" \notin DOMAIN c
    THEN [status |-> "KeyError", ret |-> None]
    ELSE [status |-> "ok",
          ret |-> VecAdd(c["kl_divergence"],
                         latent_local_kl_div(Len(c["kl_divergence"])))]

VAE_local_kl_div_posterior_prior ==
    /\ IsVAE(model)
    /\ UNCHANGED pvars
    /\ last' = [op |-> "local_kl_div_posterior_prior", arg |-> None,
                status |-> local_kl_div_posterior_prior(cache,
                                                        Len(stats)).status,
                ret |-> local_kl_div_posterior_prior(cache, Len(stats)).ret,
                after_forward |-> fwd]
    /\ UNCHANGED <<model, cache, stats, calls, fwd>>

\* VAE.__init__ and the subclasses' __init__
VAE_init(encoder, decoder, latent_model) ==
    [kind |-> "VAE", encoder |-> encoder, decoder |-> decoder,
     latent_model |-> latent_model]

Global_init(kind, normal, encoder, decoder, latent_model) ==
    [kind |-> kind, normal |-> normal, encoder |-> encoder,
     decoder |-> decoder, latent_model |-> latent_model]

Encoders == {<<1, 1>>}
Decoders == {<<1, 0>>}
NoiseVals == {0, 1}
NSamples == {1, 2}

VAEs ==
    {VAE_init(e, d, 0) : e \in Encoders, d \in Decoders}
    \cup {Global_init(k, 0, e, d, 0) :
            k \in {"VAEGlobalMeanDiagonalCovariance",
                   "VAEGlobalMeanIsotropicCovariance"},
            e \in Encoders, d \in Decoders}

\* Messages a parent hands to a VAE: one weight per sample.
SampleMsgs(batch) ==
    { Tab(LAMBDA s : R1, batch),
      Tab(LAMBDA s : IF s = 1 THEN R0 ELSE R1, batch),
      Tab(LAMBDA s : Rat(1, s + 1), batch) }

\* ------------------------------------------------------------------------
\* The specifications.
\* ------------------------------------------------------------------------
NoObject == [kind |-> "none"]

Init ==
    /\ model \in MixtureSets \cup VAEs
    /\ cache = EmptyCache
    /\ stats = <<>>
    /\ last = [op |-> "init", arg |-> None, status |-> "ok", ret |-> None]
    /\ calls = <<>>
    /\ fwd = FALSE
    /\ tensors = <<>> /\ prior = None /\ plast = None

IsMixtureSet == model.kind = "MixtureSet"

Next ==
    \/ \E b \in Batches : MixtureSet_forward(b)
    \/ /\ IsMixtureSet
       /\ \E b \in Batches :
              \E pm \in {None} \cup ParentMsgs(Len(b), model.num_mix) :
                  MixtureSet_accumulate(b, pm)
    \/ /\ IsMixtureSet
       /\ \E key \in 0..(model.num_mix - 1) : MixtureSet_getitem(key)
    \/ MixtureSet_len
    \/ \E b \in Batches, n \in NSamples :
           \E noise \in [1..n -> NoiseVals] : VAE_forward(b, n, noise)
    \/ \E pm \in {None} \cup SampleMsgs(Len(stats)) : VAE_accumulate(pm)
    \/ \E pm \in {None} \cup SampleMsgs(Len(stats)) : Global_accumulate(pm)
    \/ VAE_local_kl_div_posterior_prior

Spec == Init /\ [][Next]_vars

PriorInit ==
    /\ \E eta \in EtaVals : DirichletPrior(eta)
    /\ model = NoObject /\ cache = EmptyCache /\ stats = <<>>
    /\ last = None /\ calls = <<>> /\ fwd = FALSE

PriorNext ==
    \/ SetNaturalHparams /\ UNCHANGED mvars
    \/ NewTensor /\ UNCHANGED mvars

SpecPrior == PriorInit /\ [][PriorNext]_vars

\* ========================================================================
\* BayesianParameter, BayesianParameterSet and kl_div
\* ========================================================================

\* A DirichletPrior object, as its constructor leaves it: natural_hparams =
\* concentrations - 1 and the expected sufficient statistics the setter
\* computes.  dtype and device are those of the concentrations.
dirichlet(eta, dtype) ==
    [family |-> "DirichletPrior",
     natural_hparams |-> eta,
     expected_sufficient_statistics |-> grad_log_norm(eta),
     dtype |-> dtype,
     device |-> "cpu"]

\* The names an instance of each class answers to (its methods, properties
\* and fields); the lookup of any other name raises AttributeError.
ExpFamilyPrior_attrs ==
    {"expected_sufficient_statistics", "natural_hparams",
     "split_sufficient_statistics", "log_norm",
     "_expected_sufficient_statistics", "_natural_hparams"}

BayesianParameter_attrs ==
    {"prior", "posterior", "natural_grad", "expected_value",
     "zero_natural_grad", "kl_div", "float_", "double_", "to_"}

\* BayesianParameter.__init__(prior, posterior)
BayesianParameter_init(prior_, posterior_) ==
    [prior |-> prior_,
     posterior |-> posterior_,
     natural_grad |-> [data |-> Zeros(Len(prior_.natural_hparams)),
                       dtype |-> prior_.dtype,
                       device |-> prior_.device]]

\* BayesianParameterSet.__init__(parameters)
BayesianParameterSet_init(parameters) ==
    [kind |-> "BayesianParameterSet", parameters |-> parameters]

\* The vector of length n with every entry e.
ConstVec(e, n) == Tab(LAMBDA i : e, n)

\* The parameter sets of the model: n parameters over d dimensions; the
\* posterior of parameter i has the dimension of its prior, or (a set built
\* from priors of mixed sizes) one dimension more.
ParameterSets ==
    { BayesianParameterSet_init(
          Tab(LAMBDA i :
              BayesianParameter_init(
                  dirichlet(ConstVec(0, d), dt),
                  dirichlet(ConstVec(i % (MaxEta + 1), d + extra), dt)), n)) :
        n \in 0..MaxMix, d \in 1..MaxComp, extra \in {0, 1},
        dt \in {"float32", "float64"} }

\* The module-level kl_div(model1, model2): the arguments of
\* _bregman_divergence are evaluated in order,
\*   model2.log_norm, model1.log_norm,
\*   model1.expected_sufficient_statistics,
\*   model2.natural_params, model1.natural_params
\* and then two bound methods are subtracted.
kl_div(model1, model2) ==
    IF \E name \in {"log_norm", "expected_sufficient_statistics",
                    "natural_params"} : name \notin ExpFamilyPrior_attrs
    THEN [status |-> "AttributeError", ret |-> None]
    ELSE [status |-> "TypeError", ret |-> None]

\* BayesianParameter.kl_div(): ExpFamilyPrior.kl_div(self.posterior,
\* self.prior), an attribute of the class ExpFamilyPrior.
BayesianParameter_kl_div(param) ==
    IF "kl_div" \notin ExpFamilyPrior_attrs
    THEN [status |-> "AttributeError", ret |-> None]
    ELSE kl_div(param.posterior, param.prior)

\* The variables a call on a parameter or on a prior leaves alone.
param_frame == UNCHANGED <<tensors, prior, plast, cache, stats, calls, fwd>>

IsParameterSet == model.kind = "BayesianParameterSet"

Indices == 1..Len(model.parameters)

\* The priors at hand: the priors and posteriors of the parameters.
PriorsAtHand ==
    {model.parameters[i].prior : i \in Indices}
    \cup {model.parameters[i].posterior : i \in Indices}

call_kl_div(model1, model2) ==
    /\ last' = [op |-> "kl_div",
                arg |-> [model1 |-> model1, model2 |-> model2],
                status |-> kl_div(model1, model2).status,
                ret |-> kl_div(model1, model2).ret]
    /\ UNCHANGED model
    /\ param_frame

call_parameter_kl_div(i) ==
    /\ last' = [op |-> "BayesianParameter.kl_div",
                arg |-> [model1 |-> model.parameters[i].posterior,
                         model2 |-> model.parameters[i].prior],
                status |-> BayesianParameter_kl_div(model.parameters[i]).status,
                ret |-> BayesianParameter_kl_div(model.parameters[i]).ret]
    /\ UNCHANGED model
    /\ param_frame

\* zero_() on a copy: the parameter keeps its gradient.
zero_natural_grad_not_in_place(param) == param

\* BayesianParameter.zero_natural_grad(): self.natural_grad.zero_()
zero_natural_grad(param) ==
    [param EXCEPT !.natural_grad.data = Zeros(Len(@))]

call_zero_natural_grad(i) ==
    /\ model' = [model EXCEPT
                   !.parameters[i] = zero_natural_grad(model.parameters[i])]
    /\ last' = [op |-> "zero_natural_grad", arg |-> i, status |-> "ok",
                ret |-> None, before |-> model.parameters[i]]
    /\ param_frame

\* The natural gradient of a parameter is accumulated from outside the class
\* (the training loop adds to natural_grad in place).
MaxGrad == 1

add_natural_grad(param, g) ==
    [param EXCEPT !.natural_grad.data = VecAdd(@, ConstVec(RInt(g), Len(@)))]

call_add_natural_grad(i) ==
    /\ ~ RLe(RInt(MaxGrad), model.parameters[i].natural_grad.data[1])
    /\ model' = [model EXCEPT
                   !.parameters[i] = add_natural_grad(model.parameters[i], 1)]
    /\ last' = [op |-> "add_natural_grad", arg |-> i, status |-> "ok",
                ret |-> None]
    /\ param_frame

\* The in-place conversions: each names the method it calls on the objects it
\* holds and what that method would convert to.
Conversions ==
    {[method |-> "float_", calls |-> "float", field |-> "dtype",
      target |-> "float32"],
     [method |-> "double_", calls |-> "double", field |-> "dtype",
      target |-> "float64"],
     [method |-> "to_", calls |-> "to", field |-> "device",
      target |-> "cuda"]}

\* tensor.float(), tensor.double(), tensor.to(device)
converted(obj, conv) ==
    IF conv.field = "dtype" THEN [obj EXCEPT !.dtype = conv.target]
    ELSE [obj EXCEPT !.device = conv.target]

\* BayesianParameter.float_(), double_() and to_(device):
\*   self.prior = self.prior.float()
\*   self.posterior = self.posterior.float()
\*   self.natural_grad = self.natural_grad.float()
\* The first line looks the method up on an ExpFamilyPrior.
BayesianParameter_convert(param, conv) ==
    IF conv.calls \notin ExpFamilyPrior_attrs
    THEN [status |-> "AttributeError", param |-> param]
    ELSE [status |-> "ok",
          param |-> [prior |-> converted(param.prior, conv),
                     posterior |-> converted(param.posterior, conv),
                     natural_grad |-> converted(param.natural_grad, conv)]]

\* BayesianParameterSet.float_(), double_() and to_(device):
\*   for param in self.__parameters: param.float()
\* The loop body looks the method up on a BayesianParameter.
BayesianParameterSet_convert(set, conv) ==
    IF Len(set.parameters) = 0
    THEN [status |-> "ok", set |-> set]
    ELSE IF conv.calls \notin BayesianParameter_attrs
    THEN [status |-> "AttributeError", set |-> set]
    ELSE [status |-> "ok",
          set |-> [set EXCEPT !.parameters =
                      Tab(LAMBDA i : BayesianParameter_convert(
                                         set.parameters[i], conv).param,
                          Len(set.parameters))]]

call_parameter_convert(i, conv) ==
    /\ model' = [model EXCEPT !.parameters[i] =
                    BayesianParameter_convert(model.parameters[i], conv).param]
    /\ last' = [op |-> "BayesianParameter.convert", arg |-> i,
                conv |-> conv,
                status |-> BayesianParameter_convert(
                               model.parameters[i], conv).status,
                ret |-> None]
    /\ param_frame

call_set_convert(conv) ==
    /\ model' = BayesianParameterSet_convert(model, conv).set
    /\ last' = [op |-> "BayesianParameterSet.convert", arg |-> None,
                conv |-> conv,
                status |-> BayesianParameterSet_convert(model, conv).status,
                ret |-> None]
    /\ param_frame

\* ------------------------------------------------------------------------
\* The stochastic variational Bayes loss of a model with these parameters
\* ------------------------------------------------------------------------

\* The model's per-sample expected log-likelihood of a batch (one entry per
\* sample).
model_forward(batch) == Tab(LAMBDA s : RSub(R0, RInt(batch[s])), Len(batch))

\* kl_div_posterior_prior(parameters): the sum of parameter.kl_div() over
\* the parameters, in order; the first call that raises ends it.
RECURSIVE kl_div_posterior_prior(_)
kl_div_posterior_prior(parameters) ==
    IF parameters = <<>> THEN [status |-> "ok", ret |-> R0]
    ELSE IF BayesianParameter_kl_div(Head(parameters)).status # "ok"
    THEN [status |-> BayesianParameter_kl_div(Head(parameters)).status,
          ret |-> None]
    ELSE IF kl_div_posterior_prior(Tail(parameters)).status # "ok"
    THEN kl_div_posterior_prior(Tail(parameters))
    ELSE [status |-> "ok",
          ret |-> RAdd(BayesianParameter_kl_div(Head(parameters)).ret,
                       kl_div_posterior_prior(Tail(parameters)).ret)]

\* StochasticVariationalBayesLoss(model, datasize)(batch): the evidence
\* lower bound, the expected log-likelihood of the batch scaled by
\* len(batch) / datasize minus the KL divergence of the parameters.
loss_value(exp_llh_per_frame, scale, kl) ==
    IF kl.status # "ok" THEN [status |-> kl.status, ret |-> None]
    ELSE [status |-> "ok",
          ret |-> [value |-> RSub(RMul(scale, RSum(exp_llh_per_frame)),
                                  kl.ret),
                   exp_llh_per_frame |-> exp_llh_per_frame,
                   scale |-> scale,
                   kl_div |-> kl.ret]]

StochasticVariationalBayesLoss(parameters, datasize, batch) ==
    loss_value(model_forward(batch), Rat(Len(batch), datasize),
               kl_div_posterior_prior(parameters))

call_loss(datasize, batch) ==
    /\ Len(batch) <= datasize
    /\ last' = [op |-> "loss",
                arg |-> [datasize |-> datasize, batch |-> batch],
                status |-> StochasticVariationalBayesLoss(
                               model.parameters, datasize, batch).status,
                ret |-> StochasticVariationalBayesLoss(
                            model.parameters, datasize, batch).ret]
    /\ UNCHANGED model
    /\ param_frame

ParamInit ==
    /\ model \in ParameterSets
    /\ cache = EmptyCache /\ stats = <<>>
    /\ last = [op |-> "init", arg |-> None, status |-> "ok", ret |-> None]
    /\ calls = <<>> /\ fwd = FALSE
    /\ tensors = <<>> /\ prior = None /\ plast = None

ParamNext ==
    \/ \E p \in PriorsAtHand, q \in PriorsAtHand : call_kl_div(p, q)
    \/ \E i \in Indices : call_parameter_kl_div(i)
    \/ \E i \in Indices : call_zero_natural_grad(i)
    \/ \E i \in Indices : call_add_natural_grad(i)
    \/ \E i \in Indices, conv \in Conversions : call_parameter_convert(i, conv)
    \/ \E conv \in Conversions : call_set_convert(conv)
    \/ \E datasize \in 1..MaxBatch, batch \in Batches :
           call_loss(datasize, batch)

SpecParam == ParamInit /\ [][ParamNext]_vars

\* ========================================================================
\* The construction helpers of the prior families
\* ========================================================================
\* A tensor argument is given by its shape; the helpers are followed through
\* the shapes torch computes, up to the value they return.

RECURSIVE numel(_)
numel(shape) == IF shape = <<>> THEN 1 ELSE Head(shape) * numel(Tail(shape))

Max(a, b) == IF a >= b THEN a ELSE b

\* Broadcasting of two shapes of the same number of dimensions.
broadcastable(s1, s2) ==
    \A k \in 1..Len(s1) : s1[k] = s2[k] \/ s1[k] = 1 \/ s2[k] = 1

broadcast(s1, s2) == Tab(LAMBDA k : Max(s1[k], s2[k]), Len(s1))

\* torch.inverse(cov) accepts a square matrix.
inverse_ok(cov) == Len(cov) = 2 /\ cov[1] = cov[2]

\* What a helper call comes to: how it ends, the shape of the natural_params
\* it computed (None when it did not get there) and the value it returns.
raised(error) == [status |-> error, natural_params |-> None, ret |-> None]

\* The helpers end after the assignment of natural_params: the function
\* body has no return statement, the call evaluates to None.
falls_off_the_end(natural_params) ==
    [status |-> "ok", natural_params |-> natural_params, ret |-> None]

\* NormalGammaPrior(mean, precision, prior_counts), mean and precision (D,)
NormalGammaPrior(mean, precision) ==
    falls_off_the_end(<<4 * numel(mean)>>)

\* JointNormalGammaPrior(means, prec, prior_counts), means (N, D), prec (D,)
JointNormalGammaPrior(means, prec) ==
    falls_off_the_end(<<means[2] + numel(means) + numel(means) + numel(prec)>>)

\* NormalWishartPrior(mean, cov, prior_counts), mean (D,)
NormalWishartPrior(mean, cov) ==
    IF Len(cov) # 2 THEN raised("ValueError")
    ELSE IF ~ broadcastable(<<mean[1], mean[1]>>, cov)
    THEN raised("RuntimeError")
    ELSE falls_off_the_end(
             <<numel(broadcast(<<mean[1], mean[1]>>, cov)) + mean[1] + 1 + 1>>)

\* JointNormalWishartPrior(means, cov, prior_counts), means (N, D)
JointNormalWishartPrior(means, cov) ==
    IF Len(cov) # 2 THEN raised("ValueError")
    ELSE IF ~ broadcastable(<<means[2], means[2]>>, cov)
    THEN raised("RuntimeError")
    ELSE falls_off_the_end(
             <<numel(broadcast(<<means[2], means[2]>>, cov))
                 + numel(means) + means[1] + 1>>)

\* NormalFullCovariancePrior(mean, cov), mean (D,)
NormalFullCovariancePrior(mean, cov) ==
    IF ~ inverse_ok(cov) THEN raised("RuntimeError")
    ELSE IF cov[2] # mean[1] THEN raised("RuntimeError")
    ELSE falls_off_the_end(<<numel(cov) + cov[1]>>)

\* NormalIsotropicCovariancePrior(mean, variance), mean (D,), variance (1,)
NormalIsotropicCovariancePrior(mean, variance) ==
    falls_off_the_end(<<numel(variance) + numel(broadcast(variance, mean))>>)

\* MatrixNormalPrior(mean, cov), mean (q, d)
MatrixNormalPrior(mean, cov) ==
    IF ~ inverse_ok(cov) THEN raised("RuntimeError")
    ELSE IF cov[2] # mean[1] THEN raised("RuntimeError")
    ELSE falls_off_the_end(<<numel(cov) + cov[1] * mean[2]>>)

\* GammaPrior(shape, rate), shape and rate (1,)
GammaPrior(shape, rate) ==
    falls_off_the_end(<<numel(shape) + numel(rate)>>)

\* The shapes of the scenario: vectors, matrices and 3-D tensors with axes
\* of 1..MaxComp entries.
Axis == 1..MaxComp

VectorShapes == {<<d>> : d \in Axis}

MatrixShapes == {<<n, d>> : n \in Axis, d \in Axis}

CovShapes ==
    VectorShapes \cup MatrixShapes
    \cup {<<a, b, c>> : a \in Axis, b \in Axis, c \in Axis}

CovHelpers ==
    {"NormalWishartPrior", "JointNormalWishartPrior",
     "NormalFullCovariancePrior", "MatrixNormalPrior"}

helper_frame ==
    UNCHANGED <<model, tensors, prior, plast, cache, stats, calls, fwd>>

returned(name, args, outcome) ==
    [op |-> name, arg |-> args, status |-> outcome.status,
     natural_params |-> outcome.natural_params, ret |-> outcome.ret]

call_NormalGammaPrior(mean) ==
    /\ last' = returned("NormalGammaPrior", [mean |-> mean, precision |-> mean],
                     NormalGammaPrior(mean, mean))
    /\ helper_frame

call_JointNormalGammaPrior(means) ==
    /\ last' = returned("JointNormalGammaPrior",
                     [means |-> means, prec |-> <<means[2]>>],
                     JointNormalGammaPrior(means, <<means[2]>>))
    /\ helper_frame

call_NormalWishartPrior(mean, cov) ==
    /\ last' = returned("NormalWishartPrior", [mean |-> mean, cov |-> cov],
                     NormalWishartPrior(mean, cov))
    /\ helper_frame

call_JointNormalWishartPrior(means, cov) ==
    /\ last' = returned("JointNormalWishartPrior", [means |-> means, cov |-> cov],
                     JointNormalWishartPrior(means, cov))
    /\ helper_frame

call_NormalFullCovariancePrior(mean, cov) ==
    /\ last' = returned("NormalFullCovariancePrior", [mean |-> mean, cov |-> cov],
                     NormalFullCovariancePrior(mean, cov))
    /\ helper_frame

call_NormalIsotropicCovariancePrior(mean) ==
    /\ last' = returned("NormalIsotropicCovariancePrior",
                     [mean |-> mean, variance |-> <<1>>],
                     NormalIsotropicCovariancePrior(mean, <<1>>))
    /\ helper_frame

call_MatrixNormalPrior(mean, cov) ==
    /\ last' = returned("MatrixNormalPrior", [mean |-> mean, cov |-> cov],
                     MatrixNormalPrior(mean, cov))
    /\ helper_frame

call_GammaPrior ==
    /\ last' = returned("GammaPrior", [shape |-> <<1>>, rate |-> <<1>>],
                     GammaPrior(<<1>>, <<1>>))
    /\ helper_frame

\* ------------------------------------------------------------------------
\* Splitting a flat vector of natural parameters into the groups of a family
\* ------------------------------------------------------------------------

\* Integer square root: math.sqrt followed by int().
RECURSIVE isqrt_from(_, _)
isqrt_from(x, r) == IF (r + 1) * (r + 1) > x THEN r ELSE isqrt_from(x, r + 1)

isqrt(x) == isqrt_from(x, 0)

\* int(.5 * (-b + math.sqrt(disc)))
half_root(b, disc) == (isqrt(disc) - b) \div 2

\* vec[a:b] with 0 <= a, b <= len(vec)
slice(vec, a, b) == SubSeq(vec, a + 1, b)

\* tensor.view(r, c) of a flat tensor and tensor.view(-1) of a matrix
view(vec, r, c) == Tab(LAMBDA i : Tab(LAMBDA j : vec[(i - 1) * c + j], c), r)

RECURSIVE flatten(_)
flatten(mat) == IF mat = <<>> THEN <<>> ELSE Head(mat) \o flatten(Tail(mat))

\* n consecutive entries after start: the entries of a group, all different
\* from those of the other groups.
iota(start, n) == Tab(LAMBDA i : start + i, n)

\* DirichletPrior.split_sufficient_statistics(s_stats)
dirichlet_split(s_stats) == [status |-> "ok", ret |-> s_stats]

\* _jointnormalgamma_split_nparams(natural_params, ncomp)
jointnormalgamma_split_with(natural_params, ncomp, dim) ==
    [status |-> "ok",
     ret |-> [np1 |-> slice(natural_params, 0, dim),
              np2s |-> view(slice(natural_params, dim, dim + dim * ncomp),
                            ncomp, dim),
              np3s |-> view(slice(natural_params, dim + dim * ncomp,
                                  dim + 2 * dim * ncomp), ncomp, dim),
              np4 |-> slice(natural_params, dim + 2 * dim * ncomp,
                            Len(natural_params)),
              dim |-> dim]]

jointnormalgamma_split_nparams(natural_params, ncomp) ==
    jointnormalgamma_split_with(natural_params, ncomp,
                                Len(natural_params) \div (2 + 2 * ncomp))

\* _normalwishart_split_nparams(natural_params)
normalwishart_split_with(natural_params, n, dim) ==
    [status |-> "ok",
     ret |-> [np1 |-> view(slice(natural_params, 0, dim * dim), dim, dim),
              np2 |-> slice(natural_params, dim * dim, n - 2),
              np3 |-> natural_params[n - 1],
              np4 |-> natural_params[n],
              dim |-> dim]]

normalwishart_split_nparams(natural_params) ==
    normalwishart_split_with(
        natural_params, Len(natural_params),
        half_root(1, 1 + 4 * (Len(natural_params) - 2)))

\* _jointnormalwishart_split_nparams(natural_params, ncomp)
jointnormalwishart_split_with(natural_params, ncomp, n, dim) ==
    [status |-> "ok",
     ret |-> [np1 |-> view(slice(natural_params, 0, dim * dim), dim, dim),
              np2s |-> view(slice(natural_params, dim * dim, n - (ncomp + 1)),
                            ncomp, dim),
              np3s |-> slice(natural_params, n - (ncomp + 1), n - 1),
              np4 |-> natural_params[n],
              dim |-> dim]]

jointnormalwishart_split_nparams(natural_params, ncomp) ==
    jointnormalwishart_split_with(
        natural_params, ncomp, Len(natural_params),
        half_root(ncomp,
                  ncomp * ncomp + 4 * (Len(natural_params) - (ncomp + 1))))

\* _normal_fc_split_nparams(natural_params)
normal_fc_split_with(natural_params, dim) ==
    [status |-> "ok",
     ret |-> [np1 |-> view(slice(natural_params, 0, dim * dim), dim, dim),
              np2 |-> slice(natural_params, dim * dim, Len(natural_params)),
              dim |-> dim]]

normal_fc_split_nparams(natural_params) ==
    normal_fc_split_with(natural_params,
                         half_root(1, 1 + 4 * Len(natural_params)))

\* _normal_iso_split_nparams(natural_params):
\*   np1, np2 = natural_params[0], natural_params[1:]
\*   #return np1, np2
\* The function has no return statement: the call evaluates to None.
normal_iso_split_nparams(natural_params) ==
    [status |-> "ok", ret |-> None]

\* The groups of each family in its canonical layout, for dimension D and K
\* components, entries numbered from o + 1 on, and their concatenation
\* (torch.cat of the flattened groups, in the order of the helper's
\* natural_params).
dirichlet_groups(D, o) == iota(o, D)

jointnormalgamma_groups(D, K, o) ==
    [np1 |-> iota(o, D),
     np2s |-> view(iota(o + D, K * D), K, D),
     np3s |-> view(iota(o + D + K * D, K * D), K, D),
     np4 |-> iota(o + D + 2 * K * D, D),
     dim |-> D]

normalwishart_groups(D, o) ==
    [np1 |-> view(iota(o, D * D), D, D),
     np2 |-> iota(o + D * D, D),
     np3 |-> o + D * D + D + 1,
     np4 |-> o + D * D + D + 2,
     dim |-> D]

jointnormalwishart_groups(D, K, o) ==
    [np1 |-> view(iota(o, D * D), D, D),
     np2s |-> view(iota(o + D * D, K * D), K, D),
     np3s |-> iota(o + D * D + K * D, K),
     np4 |-> o + D * D + K * D + K + 1,
     dim |-> D]

normal_fc_groups(D, o) ==
    [np1 |-> view(iota(o, D * D), D, D),
     np2 |-> iota(o + D * D, D),
     dim |-> D]

normal_iso_groups(D, o) ==
    [np1 |-> o + 1, np2 |-> iota(o + 1, D), dim |-> D]

concat(family, g) ==
    CASE family = "DirichletPrior" -> g
      [] family = "JointNormalGammaPrior" ->
             g.np1 \o flatten(g.np2s) \o flatten(g.np3s) \o g.np4
      [] family = "NormalWishartPrior" ->
             flatten(g.np1) \o g.np2 \o <<g.np3, g.np4>>
      [] family = "JointNormalWishartPrior" ->
             flatten(g.np1) \o flatten(g.np2s) \o g.np3s \o <<g.np4>>
      [] family = "NormalFullCovariancePrior" -> flatten(g.np1) \o g.np2
      [] family = "NormalIsotropicCovariancePrior" -> <<g.np1>> \o g.np2

Offsets == 0..MaxEta

split_call(family, groups, ncomp, outcome) ==
    [op |-> "split", family |-> family,
     arg |-> [groups |-> groups, ncomp |-> ncomp],
     status |-> outcome.status, natural_params |-> concat(family, groups),
     ret |-> outcome.ret]

call_dirichlet_split(D, o) ==
    /\ last' = split_call("DirichletPrior", dirichlet_groups(D, o), 1,
                   dirichlet_split(concat("DirichletPrior",
                                          dirichlet_groups(D, o))))
    /\ helper_frame

call_jointnormalgamma_split(D, K, o) ==
    /\ last' = split_call("JointNormalGammaPrior",
                   jointnormalgamma_groups(D, K, o), K,
                   jointnormalgamma_split_nparams(
                       concat("JointNormalGammaPrior",
                              jointnormalgamma_groups(D, K, o)), K))
    /\ helper_frame

call_normalwishart_split(D, o) ==
    /\ last' = split_call("NormalWishartPrior", normalwishart_groups(D, o), 1,
                   normalwishart_split_nparams(
                       concat("NormalWishartPrior",
                              normalwishart_groups(D, o))))
    /\ helper_frame

call_jointnormalwishart_split(D, K, o) ==
    /\ last' = split_call("JointNormalWishartPrior",
                   jointnormalwishart_groups(D, K, o), K,
                   jointnormalwishart_split_nparams(
                       concat("JointNormalWishartPrior",
                              jointnormalwishart_groups(D, K, o)), K))
    /\ helper_frame

call_normal_fc_split(D, o) ==
    /\ last' = split_call("NormalFullCovariancePrior",
                   normal_fc_groups(D, o), 1,
                   normal_fc_split_nparams(
                       concat("NormalFullCovariancePrior",
                              normal_fc_groups(D, o))))
    /\ helper_frame

call_normal_iso_split(D, o) ==
    /\ last' = split_call("NormalIsotropicCovariancePrior",
                   normal_iso_groups(D, o), 1,
                   normal_iso_split_nparams(
                       concat("NormalIsotropicCovariancePrior",
                              normal_iso_groups(D, o))))
    /\ helper_frame

HelperInit ==
    /\ model = NoObject /\ cache = EmptyCache /\ stats = <<>>
    /\ last = [op |-> "init", arg |-> None, status |-> "ok",
               natural_params |-> None, ret |-> None]
    /\ calls = <<>> /\ fwd = FALSE
    /\ tensors = <<>> /\ prior = None /\ plast = None

HelperNext ==
    \/ \E mean \in VectorShapes : call_NormalGammaPrior(mean)
    \/ \E means \in MatrixShapes : call_JointNormalGammaPrior(means)
    \/ \E mean \in VectorShapes, cov \in CovShapes :
           call_NormalWishartPrior(mean, cov)
    \/ \E means \in MatrixShapes, cov \in CovShapes :
           call_JointNormalWishartPrior(means, cov)
    \/ \E mean \in VectorShapes, cov \in CovShapes :
           call_NormalFullCovariancePrior(mean, cov)
    \/ \E mean \in VectorShapes : call_NormalIsotropicCovariancePrior(mean)
    \/ \E mean \in MatrixShapes, cov \in CovShapes :
           call_MatrixNormalPrior(mean, cov)
    \/ call_GammaPrior
    \/ \E D \in Axis, o \in Offsets : call_dirichlet_split(D, o)
    \/ \E D \in Axis, K \in 1..MaxMix, o \in Offsets :
           call_jointnormalgamma_split(D, K, o)
    \/ \E D \in Axis, o \in Offsets : call_normalwishart_split(D, o)
    \/ \E D \in Axis, K \in 1..MaxMix, o \in Offsets :
           call_jointnormalwishart_split(D, K, o)
    \/ \E D \in Axis, o \in Offsets : call_normal_fc_split(D, o)
    \/ \E D \in Axis, o \in Offsets : call_normal_iso_split(D, o)

SpecHelpers == HelperInit /\ [][HelperNext]_vars

\* ========================================================================
\* Conversions of the models; the non-Bayesian parameters of the VAE
\* ========================================================================
\* In this scenario the objects alive (tensors) are the torch.nn.Module
\* networks of a VAE, id -> [params, dtype, device]; the model holds the ids
\* of its encoder and of its decoder.

ParamVals == DataVals

\* Parameter lists of n entries.
ParamLists(n) == [1..n -> ParamVals]

\* torch.nn.Module.float(), double() and to(device): the module converts its
\* own parameters and returns itself.
Module_convert(mod, conv) == converted(mod, conv)

\* float(), double() and to(device) of a Bayesian model held by the VAE (the
\* latent model, the normal of the global-mean variants): a converted copy.
BayesianModel_convert(obj, conv) == converted(obj, conv)

Network(params) == [params |-> params, dtype |-> "float32", device |-> "cpu"]

BayesianModelStub == [dtype |-> "float32", device |-> "cpu"]

\* VAE.__init__(encoder, decoder, latent_model) and the __init__ of the
\* global-mean variants (normal, encoder, decoder, latent_model), on the ids
\* of the networks.
NetVAE_init(kind, encoder, decoder) ==
    IF kind = "VAE"
    THEN [kind |-> kind, encoder |-> encoder, decoder |-> decoder,
          latent_model |-> BayesianModelStub]
    ELSE [kind |-> kind, normal |-> BayesianModelStub,
          encoder |-> encoder, decoder |-> decoder,
          latent_model |-> BayesianModelStub]

VAEKinds ==
    {"VAE", "VAEGlobalMeanDiagonalCovariance",
     "VAEGlobalMeanIsotropicCovariance"}

IsNetVAE == model.kind \in VAEKinds

\* The encoder has MaxTensors parameter tensors, the decoder one.
EncoderParams == ParamLists(MaxTensors)

DecoderParams == ParamLists(1)

\* self.__class__(self.encoder.float(), self.decoder.float(),
\*                self.latent_model.float()), on the networks of heap:
\* the networks after the call and the instance returned.
VAE_converted_heap(m, heap, conv) ==
    [heap EXCEPT ![m.encoder] = Module_convert(@, conv),
                 ![m.decoder] = Module_convert(@, conv)]

VAE_converted(m, conv) ==
    IF m.kind = "VAE"
    THEN [NetVAE_init(m.kind, m.encoder, m.decoder) EXCEPT
              !.latent_model = BayesianModel_convert(m.latent_model, conv)]
    ELSE [NetVAE_init(m.kind, m.encoder, m.decoder) EXCEPT
              !.normal = BayesianModel_convert(m.normal, conv),
              !.latent_model = BayesianModel_convert(m.latent_model, conv)]

convert_frame == UNCHANGED <<prior, plast, cache, stats, calls, fwd>>

\* VAE.float(), double(), to(device) and those of the variants.
VAE_convert(conv) ==
    /\ IsNetVAE
    /\ tensors' = VAE_converted_heap(model, tensors, conv)
    /\ last' = [op |-> "convert", conv |-> conv, status |-> "ok",
                ret |-> VAE_converted(model, conv),
                before |-> tensors]
    /\ UNCHANGED model
    /\ convert_frame

\* ------------------------------------------------------------------------
\* MixtureSet.mean_field_factorization
\* ------------------------------------------------------------------------
\* For a MixtureSet the object alive is its component set: whether it keeps
\* the list of groups it hands out (keeps) and that list (mf_groups), one
\* group holding the parameter of every component model.

MaxCalls == 2      \* calls of mean_field_factorization on one model

ComponentSet(pool, keeps) ==
    [keeps |-> keeps,
     mf_groups |-> <<Tab(LAMBDA k : <<"modelset", k>>, pool)>>]

\* self.modelset.mean_field_factorization(): the list of groups of the
\* component set, the list it keeps or one built for the call.
modelset_mean_field_factorization(set) == set.mf_groups

\* for weight_param in self.mix_weights: mf_groups[0].append(weight_param)
append_weights(m, mf_groups) ==
    [mf_groups EXCEPT
        ![1] = @ \o Tab(LAMBDA i : <<"mix_weights", i>>, m.num_mix)]

\* MixtureSet.mean_field_factorization(): the list returned; the append is
\* made in place, on the component set's own list when it keeps it.
mean_field_factorization(m, set) ==
    append_weights(m, modelset_mean_field_factorization(set))

MixtureSet_mean_field_factorization ==
    /\ IsMixtureSet
    /\ Len(tensors[1].mf_groups[1])
           < model.modelset + MaxCalls * model.num_mix
    /\ tensors' = IF tensors[1].keeps
                  THEN <<[tensors[1] EXCEPT !.mf_groups =
                             mean_field_factorization(model, tensors[1])]>>
                  ELSE tensors
    /\ last' = [op |-> "mean_field_factorization", arg |-> None,
                status |-> "ok",
                ret |-> mean_field_factorization(model, tensors[1])]
    /\ UNCHANGED model
    /\ convert_frame

\* MixtureSet.float(), double(), to(device): the first list comprehension
\* calls weight_param.prior.float() on an ExpFamilyPrior.
MixtureSet_converted(m, conv) ==
    IF conv.calls \notin ExpFamilyPrior_attrs
    THEN [status |-> "AttributeError", ret |-> None]
    ELSE [status |-> "ok",
          ret |-> MixtureSet_init(
                      Tab(LAMBDA i : m.mix_weights[i].prior, m.num_mix),
                      Tab(LAMBDA i : m.mix_weights[i].posterior, m.num_mix),
                      m.modelset)]

MixtureSet_convert(conv) ==
    /\ IsMixtureSet
    /\ last' = [op |-> "convert", conv |-> conv,
                status |-> MixtureSet_converted(model, conv).status,
                ret |-> MixtureSet_converted(model, conv).ret,
                before |-> tensors]
    /\ UNCHANGED <<model, tensors>>
    /\ convert_frame

\* VAE.non_bayesian_parameters()
non_bayesian_parameters(m, heap) ==
    heap[m.encoder].params \o heap[m.decoder].params

VAE_non_bayesian_parameters ==
    /\ IsNetVAE
    /\ last' = [op |-> "non_bayesian_parameters", arg |-> None,
                status |-> "ok",
                ret |-> non_bayesian_parameters(model, tensors)]
    /\ UNCHANGED <<model, tensors>>
    /\ convert_frame

Min(a, b) == IF a <= b THEN a ELSE b

\* new_params[:n] and new_params[n:]
slice_to(list, n) == SubSeq(list, 1, Min(n, Len(list)))

slice_from(list, n) == SubSeq(list, n + 1, Len(list))

\* for param, new_p_data in zip(parameters, new): param.data = new_p_data
\* (zip stops at the shorter of the two)
zip_assign(params, new) ==
    Tab(LAMBDA i : IF i <= Len(new) THEN new[i] ELSE params[i], Len(params))

\* copy.deepcopy(network): a new object; the ids of a pair of copies made
\* while the pair copied is alive.
deepcopy_ids(m) ==
    IF m.encoder = 1 THEN [encoder |-> 3, decoder |-> 4]
    ELSE [encoder |-> 1, decoder |-> 2]

\* VAE.set_non_bayesian_parameters(new_params); the networks the model held
\* before are no longer referenced by it.
set_non_bayesian_parameters(m, heap, new_params, ids) ==
    (ids.encoder :>
        [heap[m.encoder] EXCEPT !.params =
            zip_assign(@, slice_to(new_params, Len(heap[m.encoder].params)))])
    @@ (ids.decoder :>
        [heap[m.decoder] EXCEPT !.params =
            zip_assign(@, slice_from(new_params,
                                     Len(heap[m.encoder].params)))])

VAE_set_non_bayesian_parameters(new_params) ==
    /\ IsNetVAE
    /\ tensors' = set_non_bayesian_parameters(model, tensors, new_params,
                                              deepcopy_ids(model))
    /\ model' = [model EXCEPT !.encoder = deepcopy_ids(model).encoder,
                              !.decoder = deepcopy_ids(model).decoder]
    /\ last' = [op |-> "set_non_bayesian_parameters", arg |-> new_params,
                status |-> "ok", ret |-> None,
                before |-> non_bayesian_parameters(model, tensors)]
    /\ convert_frame

\* ------------------------------------------------------------------------
\* The module-level create of the mixture-set module
\* ------------------------------------------------------------------------
\* Here the object alive is the configuration: model holds model_conf, a
\* dict with 'size', 'components' (a dict with its own 'size') and
\* 'prior_strength'.

ModelConf(size, components_size, prior_strength) ==
    [kind |-> "model_conf", size |-> size,
     components |-> [size |-> components_size],
     prior_strength |-> prior_strength]

IsModelConf == model.kind = "model_conf"

\* create_model_handle(conf, mean, variance): a component set of conf['size']
\* models.
create_model_handle(conf) == conf.size

\*   model_conf['components']['size'] *= n_mix
scale_components(conf) ==
    [conf EXCEPT !.components.size = @ * conf.size]

\*   n_element = int(len(modelset) / n_mix)
\*   weights = torch.ones(n_element) / n_element, repeated n_mix times
\*   prior_strength * w, for w in weights
concentrations(conf, modelset) ==
    Tab(LAMBDA i :
            Tab(LAMBDA c : Rat(conf.prior_strength, modelset \div conf.size),
                modelset \div conf.size),
        conf.size)

\* The mixture set create returns, for the configuration as the second line
\* left it: the priors and the posteriors are built by two list
\* comprehensions, each DirichletPrior a new object (numbered in the order
\* of construction).
created(conf, modelset) ==
    [set |-> MixtureSet_init(concentrations(conf, modelset),
                             concentrations(conf, modelset), modelset),
     prior_ids |-> Tab(LAMBDA i : i, conf.size),
     posterior_ids |-> Tab(LAMBDA i : conf.size + i, conf.size)]

\* create(model_conf, mean, variance, create_model_handle); calls keeps the
\* two most recent requests made to create_model_handle.
create ==
    /\ IsModelConf
    /\ model.components.size * model.size <= MaxMix * MaxMix * MaxComp
    /\ model' = scale_components(model)
    /\ calls' = (IF calls = <<>> THEN <<>> ELSE <<calls[Len(calls)]>>)
                    \o <<[callee |-> "create_model_handle",
                          size |-> scale_components(model).components.size]>>
    /\ last' = [op |-> "create", arg |-> model, status |-> "ok",
                ret |-> created(scale_components(model),
                                create_model_handle(
                                    scale_components(model).components))]
    /\ UNCHANGED <<tensors, prior, plast, cache, stats, fwd>>

\* The lists handed to set_non_bayesian_parameters: up to one entry more
\* than the model has parameters.
NewParamLists == UNION {ParamLists(n) : n \in 0..(MaxTensors + 2)}

ConvertInit ==
    /\ \/ /\ model \in MixtureSets
          /\ \E keeps \in BOOLEAN :
                 tensors = <<ComponentSet(model.modelset, keeps)>>
       \/ \E kind \in VAEKinds, enc \in EncoderParams, dec \in DecoderParams :
              /\ model = NetVAE_init(kind, 1, 2)
              /\ tensors = <<Network(enc), Network(dec)>>
       \/ \E size \in 1..MaxMix, components_size \in 1..MaxComp,
             prior_strength \in 1..2 :
              /\ model = ModelConf(size, components_size, prior_strength)
              /\ tensors = <<>>
    /\ cache = EmptyCache /\ stats = <<>>
    /\ last = [op |-> "init", arg |-> None, status |-> "ok", ret |-> None]
    /\ calls = <<>> /\ fwd = FALSE
    /\ prior = None /\ plast = None

ConvertNext ==
    \/ \E conv \in Conversions : VAE_convert(conv)
    \/ \E conv \in Conversions : MixtureSet_convert(conv)
    \/ MixtureSet_mean_field_factorization
    \/ VAE_non_bayesian_parameters
    \/ \E new_params \in NewParamLists :
           VAE_set_non_bayesian_parameters(new_params)
    \/ create

SpecConvert == ConvertInit /\ [][ConvertNext]_vars


\* ========================================================================
\* Properties
\* ========================================================================

\* C1: in every reachable state of an ExpFamilyPrior (after construction and
\* after any sequence of assignments to natural_hparams, successful or
\* raising), expected_sufficient_statistics is the gradient of log_norm at
\* the stored natural_hparams.
C1_ess_is_grad_of_log_norm ==
    model.kind = "none" =>
        expected_sufficient_statistics = grad_log_norm(natural_hparams)

\* C2: after accumulate returns, on any model, the cache of the model is
\* empty.
C2_cache_empty_after_accumulate ==
    (last.op = "accumulate" /\ last.status = "ok") => DOMAIN cache = {}

\* C3: an accumulate call with no forward on the instance since the previous
\* accumulate fails: it does not return statistics.  (A MixtureSet given no
\* parent_msg fails for that reason, whatever its cache holds.)
C3_accumulate_without_forward_fails ==
    (last.op = "accumulate" /\ ~last.after_forward) => last.status # "ok"

\* The value of self._expected_llh(...) in the last forward of a VAE, and
\* the KL divergence that forward computed.
last_forward_ell ==
    expected_llh(model, last.arg.data,
                 encoder_forward(model.encoder, last.arg.data),
                 last.arg.nsamples, last.arg.noise, EmptyCache).ret

last_forward_kl ==
    compute_local_kl_div(
        encoder_forward(model.encoder, last.arg.data),
        latent_expected_natural_params(
            model.latent_model,
            encoder_forward(model.encoder, last.arg.data)).exp_np_params)

\* C4 (as the code has it): VAE.forward returns, for every sample of the
\* batch, the Monte Carlo expected log-likelihood alone; the local KL
\* divergence of the call is cached under 'kl_divergence' and is not
\* subtracted from the returned value.
C4_forward_returns_expected_llh ==
    (IsVAE(model) /\ last.op = "forward") =>
        /\ last.ret = last_forward_ell
        /\ "kl_divergence" \in DOMAIN cache
        /\ cache["kl_divergence"] = last_forward_kl

\* C4 (as stated): VAE.forward returns, for every sample of the batch, the
\* Monte Carlo expected log-likelihood minus the local KL divergence cached
\* under 'kl_divergence' by the same call.
C4_forward_returns_ell_minus_kl ==
    (IsVAE(model) /\ last.op = "forward") =>
        /\ Len(last.ret) = Len(last.arg.data)
        /\ \A s \in 1..Len(last.arg.data) :
               last.ret[s] = RSub(last_forward_ell[s],
                                  cache["kl_divergence"][s])

\* A VAE forward on a batch of two samples whose cached KL divergences are
\* not zero.
C4_witness ==
    /\ IsVAE(model) /\ last.op = "forward"
    /\ Len(last.arg.data) = 2 /\ last.arg.nsamples = 2
    /\ \A s \in 1..2 : cache["kl_divergence"][s] # R0

\* C5: MixtureSet.accumulate with parent_msg = None raises ValueError before
\* it reads the cache and before it calls the component set's accumulate;
\* the cache and the parameters of the model are unchanged by the call.
C5_none_parent_msg_raises_first ==
    [][(IsMixtureSet /\ last'.op = "accumulate"
          /\ last'.arg.parent_msg = None)
       => /\ last'.status = "ValueError"
          /\ calls' = <<>>
          /\ cache' = cache
          /\ model' = model]_vars

\* accumulate(stats, None) has raised ValueError on a MixtureSet whose cache
\* holds no responsibilities.
C5_witness ==
    /\ IsMixtureSet /\ last.op = "accumulate"
    /\ last.arg.parent_msg = None
    /\ last.status = "ValueError"
    /\ "resps" \notin DOMAIN cache

\* C6: for a MixtureSet whose forward has cached responsibilities resps,
\* accumulate(stats, parent_msg) maps the weight parameter of every mixture
\* m to the vector whose component c is the sum over the samples s of
\* parent_msg[s, m] * resps[s, m, c].
C6_weight_statistics ==
    (IsMixtureSet /\ last.op = "accumulate" /\ last.status = "ok"
        /\ Len(cache["resps"]) = Len(last.arg.parent_msg)) =>
        \A m \in 1..model.num_mix :
            /\ <<"mix_weights", m>> \in DOMAIN last.ret
            /\ Len(last.ret[<<"mix_weights", m>>]) = model.num_comp
            /\ \A c \in 1..model.num_comp :
                   last.ret[<<"mix_weights", m>>][c] =
                       RSum(Tab(LAMBDA s :
                                RMul(last.arg.parent_msg[s][m],
                                     cache["resps"][s][m][c]),
                                Len(last.arg.parent_msg)))

\* An accumulate that returned on two mixtures of two components and two
\* samples, under a message with weights other than 0 and 1.
C6_witness ==
    /\ IsMixtureSet /\ last.op = "accumulate" /\ last.status = "ok"
    /\ model.num_mix = 2 /\ model.num_comp = 2
    /\ Len(last.arg.parent_msg) = 2 /\ Len(cache["resps"]) = 2
    /\ last.arg.parent_msg[1][2] = Rat(1, 2)

\* C7: one MixtureSet.accumulate call invokes the component set's accumulate
\* at most once, and exactly once when it returns: with the statistics it
\* was given and a parent_msg of shape (batch, num_mix * num_comp) whose
\* entry [s, m * num_comp + c] is resps[s, m, c] * parent_msg[s, m]; the
\* mapping it returns holds every entry the component set returned and one
\* entry per mixture-weight parameter.
C7_child_accumulate_once ==
    /\ (IsMixtureSet /\ last.op = "accumulate") => Len(calls) <= 1
    /\ (IsMixtureSet /\ last.op = "accumulate" /\ last.status = "ok") =>
        /\ Len(calls) = 1
        /\ calls[1].callee = "modelset.accumulate"
        /\ calls[1].s_stats = last.arg.s_stats
        /\ Len(calls[1].parent_msg) = Len(last.arg.s_stats)
        /\ \A s \in 1..Len(calls[1].parent_msg) :
               Len(calls[1].parent_msg[s]) = model.num_mix * model.num_comp
        /\ Len(cache["resps"]) = Len(last.arg.parent_msg) =>
               \A s \in 1..Len(last.arg.parent_msg) :
                   \A m \in 0..(model.num_mix - 1) :
                       \A c \in 0..(model.num_comp - 1) :
                           calls[1].parent_msg[s][m * model.num_comp + c + 1]
                               = RMul(cache["resps"][s][m + 1][c + 1],
                                      last.arg.parent_msg[s][m + 1])
        /\ DOMAIN last.ret =
               {<<"modelset", k>> : k \in 1..model.modelset}
               \cup {<<"mix_weights", m>> : m \in 1..model.num_mix}
        /\ \A k \in 1..model.modelset :
               last.ret[<<"modelset", k>>] =
                   modelset_accumulate(model.modelset, calls[1].s_stats,
                                       calls[1].parent_msg)[<<"modelset", k>>]

\* An accumulate that returned on two mixtures of two components whose
\* child received a message with distinct entries in one row.
C7_witness ==
    /\ IsMixtureSet /\ last.op = "accumulate" /\ last.status = "ok"
    /\ model.num_mix = 2 /\ model.num_comp = 2
    /\ Len(calls) = 1 /\ Len(calls[1].parent_msg) = 2
    /\ calls[1].parent_msg[1][2] # calls[1].parent_msg[1][3]

\* C8: after MixtureSet.forward, the cached responsibilities of every
\* sample s and mixture m sum to 1 over the components, and each of them
\* lies in [0, 1].
C8_resps_sum_to_one ==
    (IsMixtureSet /\ "resps" \in DOMAIN cache) =>
        \A s \in 1..Len(cache["resps"]) :
            \A m \in 1..model.num_mix :
                /\ RSum(cache["resps"][s][m]) = R1
                /\ \A c \in 1..model.num_comp :
                       /\ RLe(R0, cache["resps"][s][m][c])
                       /\ RLe(cache["resps"][s][m][c], R1)

\* Responsibilities cached for two mixtures of two components, one of them
\* not shared evenly between its components.
C8_witness ==
    /\ IsMixtureSet /\ "resps" \in DOMAIN cache
    /\ model.num_mix = 2 /\ model.num_comp = 2
    /\ last.op = "forward" /\ last.status = "ok"
    /\ cache["resps"][1][1][1] # cache["resps"][1][1][2]

\* C9: len(mixture_set) is num_mix, and mixture_set[k] returns the num_comp
\* sub-models at the pool indices k * num_comp .. (k + 1) * num_comp - 1
\* with a weight vector of length num_comp whose entries sum to 1, for any
\* num_mix >= 1.
C9_len_and_getitem ==
    /\ (IsMixtureSet /\ last.op = "len") => last.ret = model.num_mix
    /\ (IsMixtureSet /\ last.op = "getitem" /\ last.status = "ok") =>
        /\ Len(last.ret.modelset) = model.num_comp
        /\ \A j \in 1..model.num_comp :
               last.ret.modelset[j] = last.arg * model.num_comp + j - 1
        /\ Len(last.ret.weights) = model.num_comp
        /\ RSum(last.ret.weights) = R1

\* C10: accumulate(_, parent_msg) of each of the three VAE classes passes
\* to the latent model's accumulate the latent statistics cached by the
\* preceding forward and the parent_msg it received.
C10_latent_model_receives_parent_msg ==
    (IsVAE(model) /\ last.op = "accumulate" /\ last.status = "ok") =>
        /\ Len(calls) >= 1
        /\ calls[1].callee = "latent_model.accumulate"
        /\ calls[1].s_stats =
               latent_expected_natural_params(
                   model.latent_model,
                   encoder_forward(model.encoder, stats)).s_stats
        /\ calls[1].parent_msg = last.arg.parent_msg


\* ------------------------------------------------------------------------
\* kl_div and the parameters
\* ------------------------------------------------------------------------
RECURSIVE Factorial(_)
Factorial(n) == IF n <= 1 THEN 1 ELSE n * Factorial(n - 1)

RECURSIVE ProdFactorial(_)
ProdFactorial(s) ==
    IF s = <<>> THEN 1 ELSE Factorial(Head(s)) * ProdFactorial(Tail(s))

\* exp of DirichletPrior.log_norm at the integer vector eta:
\*   exp(-lgamma(sum(eta + 1)) + sum(lgamma(eta + 1)))
exp_log_norm(eta) ==
    Rat(ProdFactorial(eta), Factorial(SumInts(eta) + Len(eta) - 1))

\* The Bregman divergence of the log-normalizer between posterior and prior:
\*   logNorm(prior.eta) - logNorm(posterior.eta)
\*       - <posterior.ESS, prior.eta - posterior.eta>
\* kept as (exp of the log-normalizer difference, inner product).
bregman(posterior_, prior_) ==
    [exp_log_norm_ratio |->
         RDiv(exp_log_norm(prior_.natural_hparams),
              exp_log_norm(posterior_.natural_hparams)),
     inner |->
         Dot(posterior_.expected_sufficient_statistics,
             Tab(LAMBDA i : RInt(prior_.natural_hparams[i]
                                 - posterior_.natural_hparams[i]),
                 Len(prior_.natural_hparams)))]

same_family_and_size(p, q) ==
    /\ p.family = q.family
    /\ Len(p.natural_hparams) = Len(q.natural_hparams)

IsKlDiv == IsParameterSet /\ last.op \in {"kl_div", "BayesianParameter.kl_div"}

\* C11: kl_div(posterior, prior), and BayesianParameter.kl_div on the
\* parameter's own pair, returns the Bregman divergence of the
\* log-normalizer, logNorm(prior.eta) - logNorm(posterior.eta)
\* - <posterior.ESS, prior.eta - posterior.eta>; in particular the divergence
\* of a distribution from itself is 0.
C11_kl_div_is_bregman_divergence ==
    (IsKlDiv /\ same_family_and_size(last.arg.model1, last.arg.model2)) =>
        /\ last.status = "ok"
        /\ last.ret = bregman(last.arg.model1, last.arg.model2)
        /\ (last.arg.model1 = last.arg.model2 =>
                last.ret = [exp_log_norm_ratio |-> R1, inner |-> R0])

\* C12: kl_div fails with an invalid-argument error exactly when the two
\* distributions are of different families or of different natural-parameter
\* lengths, and no BayesianParameter holds a prior and a posterior of
\* different family or dimensionality.
C12_kl_div_rejects_mismatched_pairs ==
    IsParameterSet =>
        /\ \A i \in Indices :
               same_family_and_size(model.parameters[i].prior,
                                    model.parameters[i].posterior)
        /\ (last.op \in {"kl_div", "BayesianParameter.kl_div"} =>
               (last.status = "ValueError"
                   <=> ~ same_family_and_size(last.arg.model1,
                                              last.arg.model2)))

\* C17: zero_natural_grad sets every entry of the parameter's natural_grad
\* to 0 and keeps its shape, leaves the natural hyper-parameters and the
\* expected sufficient statistics of prior and posterior (and every other
\* parameter) as they were, changes nothing when called a second time, and
\* natural_grad is all zeros with the prior's shape right after construction.
C17_zero_natural_grad_zeroes_in_place ==
    /\ (IsParameterSet =>
            \A i \in Indices :
                model.parameters[i].natural_grad.data
                    = Zeros(Len(model.parameters[i].prior.natural_hparams)))
    /\ [][(IsParameterSet /\ last'.op = "zero_natural_grad") =>
            /\ model'.parameters[last'.arg].natural_grad.data
                   = Zeros(Len(model.parameters[last'.arg].natural_grad.data))
            /\ model'.parameters[last'.arg].prior
                   = model.parameters[last'.arg].prior
            /\ model'.parameters[last'.arg].posterior
                   = model.parameters[last'.arg].posterior
            /\ Len(model'.parameters) = Len(model.parameters)
            /\ \A j \in Indices \ {last'.arg} :
                   model'.parameters[j] = model.parameters[j]
            /\ ((last.op = "zero_natural_grad" /\ last.arg = last'.arg) =>
                   model' = model)]_vars

\* A gradient of two non-zero entries has been zeroed.
C17_witness ==
    /\ IsParameterSet
    /\ last.op = "zero_natural_grad"
    /\ Len(last.before.natural_grad.data) = 2
    /\ \A k \in 1..2 : last.before.natural_grad.data[k] # R0
    /\ model.parameters[last.arg].natural_grad.data = Zeros(2)

\* C18: float_, double_ and to_ of a BayesianParameterSet complete without
\* error and convert the prior, the posterior and the natural_grad of every
\* element, leaving the number of elements, their order and their families
\* as they were.
C18_set_conversions_convert_every_element ==
    (IsParameterSet /\ last.op = "BayesianParameterSet.convert") =>
        /\ last.status = "ok"
        /\ \A i \in Indices :
               /\ model.parameters[i].prior[last.conv.field]
                      = last.conv.target
               /\ model.parameters[i].posterior[last.conv.field]
                      = last.conv.target
               /\ model.parameters[i].natural_grad[last.conv.field]
                      = last.conv.target

\* ------------------------------------------------------------------------
\* The construction helpers
\* ------------------------------------------------------------------------
Helpers ==
    CovHelpers \cup {"NormalGammaPrior", "JointNormalGammaPrior",
                     "NormalIsotropicCovariancePrior", "GammaPrior"}

square_matrix(shape) == Len(shape) = 2 /\ shape[1] = shape[2]

\* C13: each construction helper returns a prior object, never None, whose
\* natural hyper-parameters are the natural_params the helper computed from
\* its arguments.
C13_helpers_return_a_prior ==
    (last.op \in Helpers /\ last.status = "ok") =>
        /\ last.ret # None
        /\ last.ret.natural_hparams = last.natural_params

\* C14: every helper that takes a covariance raises ValueError whenever cov
\* is not a square two-dimensional matrix, a two-dimensional non-square one
\* included, and returns nothing.
C14_non_square_cov_raises_ValueError ==
    (last.op \in CovHelpers /\ ~ square_matrix(last.arg.cov)) =>
        /\ last.status = "ValueError"
        /\ last.ret = None

C16_parameters_are_distinct_keys ==
    IsMixtureSet =>
        /\ \A i \in 1..model.num_mix : \A j \in 1..model.num_mix :
               i # j => ~ param_eq(model, i, j)
        /\ (last.op = "accumulate" /\ last.status = "ok") =>
               /\ Cardinality({key \in DOMAIN last.ret :
                                   key[1] = "mix_weights"}) = model.num_mix
               /\ Cardinality(DOMAIN last.ret)
                      = model.num_mix + model.modelset
               /\ \A i \in 1..model.num_mix :
                      last.ret[dict_key(model, i)]
                          = sum_joint_resps(model,
                                joint_resps(model, cache["resps"],
                                            last.arg.parent_msg))[i]

\* An accumulate that returned on two mixtures whose weight parameters hold
\* the same prior and the same posterior.
C16_witness ==
    /\ IsMixtureSet /\ last.op = "accumulate" /\ last.status = "ok"
    /\ model.num_mix = 2
    /\ model.mix_weights[1] = model.mix_weights[2]
    /\ Len(cache["resps"]) = Len(last.arg.parent_msg)

\* ------------------------------------------------------------------------
\* Conversions of the models; non-Bayesian parameters
\* ------------------------------------------------------------------------

\* C19: float(), double() and to(device) of a MixtureSet and of every VAE
\* variant return a new instance and leave the model they are called on
\* untouched; the returned model shares no converted object with it.
C19_conversions_return_a_new_model ==
    last.op = "convert" =>
        /\ last.status = "ok"
        /\ IsNetVAE =>
               /\ tensors = last.before
               /\ last.ret.encoder # model.encoder
               /\ last.ret.decoder # model.decoder

\* C20: non_bayesian_parameters returns the encoder's parameters followed
\* by the decoder's; after set_non_bayesian_parameters(L) with a list of
\* that length the parameters are L (so that handing back the list just
\* read changes no value), and a list of another length is not silently
\* accepted.
C20_non_bayesian_parameters_round_trip ==
    IsNetVAE =>
        /\ last.op = "non_bayesian_parameters" =>
               last.ret = tensors[model.encoder].params
                              \o tensors[model.decoder].params
        /\ last.op = "set_non_bayesian_parameters" =>
               IF Len(last.arg) = Len(last.before)
               THEN /\ last.status = "ok"
                    /\ non_bayesian_parameters(model, tensors) = last.arg
               ELSE last.status # "ok"

\* C21: for the canonical flat layout of every family, splitting the
\* concatenation of the family's groups returns those same groups, with the
\* same dimension D, for every D >= 1 and K >= 1.
C21_split_of_concat_is_identity ==
    last.op = "split" =>
        /\ last.status = "ok"
        /\ last.ret # None
        /\ IF last.family = "DirichletPrior"
           THEN last.ret = last.arg.groups
           ELSE IF last.family = "NormalIsotropicCovariancePrior"
           THEN /\ last.ret.np1 = last.arg.groups.np1
                /\ last.ret.np2 = last.arg.groups.np2
           ELSE last.ret = last.arg.groups

\* C22: for a model and a data set of N samples, the stochastic variational
\* Bayes loss of a batch of B <= N samples is (B / N) times the sum over the
\* batch of the per-sample expected log-likelihood, minus the summed KL
\* divergence posterior/prior of the model's parameters; it exposes exactly B
\* per-frame expected log-likelihoods, and for B = N the scale is 1.
C22_loss_is_scaled_llh_minus_kl ==
    (IsParameterSet /\ last.op = "loss") =>
        /\ last.status = "ok"
        /\ Len(last.ret.exp_llh_per_frame) = Len(last.arg.batch)
        /\ last.ret.exp_llh_per_frame = model_forward(last.arg.batch)
        /\ last.ret.value
               = RSub(RMul(Rat(Len(last.arg.batch), last.arg.datasize),
                           RSum(last.ret.exp_llh_per_frame)),
                      last.ret.kl_div)
        /\ (Len(last.arg.batch) = last.arg.datasize => last.ret.scale = R1)

\* ------------------------------------------------------------------------
\* Construction of a MixtureSet, factorization, local KL divergence
\* ------------------------------------------------------------------------

RECURSIVE count(_, _)
count(x, list) ==
    IF list = <<>> THEN 0
    ELSE (IF Head(list) = x THEN 1 ELSE 0) + count(x, Tail(list))

\* C24: mean_field_factorization returns the component set's groups with the
\* mixture-weight parameters added to the first group, every weight
\* parameter exactly once, on every call of any sequence of calls on the
\* same model.
C24_weights_once_in_first_group ==
    (IsMixtureSet /\ last.op = "mean_field_factorization") =>
        /\ last.ret = append_weights(model,
                          ComponentSet(model.modelset, TRUE).mf_groups)
        /\ \A i \in 1..model.num_mix :
               count(<<"mix_weights", i>>, flatten(last.ret)) = 1

C26_create_leaves_model_conf_unchanged ==
    (IsModelConf /\ last.op = "create") =>
        /\ model = last.arg
        /\ Len(calls) = 2 => calls[1].size = calls[2].size
        /\ last.ret.set.num_mix = last.arg.size
        /\ last.ret.set.num_comp = last.arg.components.size
        /\ \A i \in 1..last.ret.set.num_mix :
               /\ last.ret.prior_ids[i] # last.ret.posterior_ids[i]
               /\ last.ret.set.mix_weights[i].prior
                      = last.ret.set.mix_weights[i].posterior

============================================================================
